---- MODULE Spec2Model ----
(***************************************************************************)
(* Verification model of the hex plant simulator's grid engine:            *)
(* grid topology (map/tile/neighbor.rs), the per-tile step                 *)
(* (map/mod.rs, map/tile/simulation) and the plant state machine           *)
(* (map/tile/simulation/plant).                                            *)
(*                                                                         *)
(* f64 values are modelled in fixed point: the integer n stands for the    *)
(* real n / Unit.  Products and quotients round toward zero.               *)
(***************************************************************************)
EXTENDS Integers, Naturals, Sequences, FiniteSets, TLC

VARIABLES
    size,       \* Map.size: [w, h]
    tiles,      \* Map.tiles: sequence (1-based here, index i+1 <-> Rust index i) of Tile
    sun_tiles,  \* Map.sun_tiles: sequence of intensities, one per column
    sun,        \* Map.sun: [intensity, position]
    settings,   \* Map.settings
    steps,      \* number of completed Map::step calls
    initial,    \* the tile array the run started from (history, never read by the program)
    panicked,   \* TRUE once a step has aborted with a Rust panic
    pos,        \* topology walk: the current TilePos
    nb,         \* topology walk: the last TilePosNeighbor computed, with its direction
    xfer        \* transfer harness: two plants, their bridge and the two transfer terms

vars == <<size, tiles, sun_tiles, sun, settings, steps, initial, panicked, pos, nb, xfer>>

(***************************************************************************)
(* Bounds of the model                                                     *)
(***************************************************************************)
MaxW == 4
MaxH == 3
MaxSteps == 3
GridW == 4
GridH == 2

(***************************************************************************)
(* Fixed-point arithmetic standing for f64                                 *)
(***************************************************************************)
Unit == 6 * 6 * 2

\* integer quotient rounding toward zero (the sign symmetry of IEEE rounding)
TruncDiv(a, b) == IF a >= 0 THEN a \div b ELSE -((-a) \div b)

\* a * b and a / b on fixed-point values
FMul(a, b) == TruncDiv(a * b, Unit)
FDiv(a, b) == TruncDiv(a * Unit, b)

FMin(a, b) == IF a <= b THEN a ELSE b
FMax(a, b) == IF a >= b THEN a ELSE b

(***************************************************************************)
(* Grid topology: TilePos and its neighbours (map/tile/neighbor.rs)        *)
(***************************************************************************)
Directions == {"Right", "UpRight", "UpLeft", "Left", "DownLeft", "DownRight"}

TilePos(x, y) == [x |-> x, y |-> y]

Valid(p) == [valid |-> TRUE, pos |-> p]
Invalid(p) == [valid |-> FALSE, pos |-> p]

from_index(index, sz) ==
    LET y == index \div sz.w
        x == index - y * sz.w
    IN  TilePos(x, y)

to_index(p, sz) == p.y * sz.w + p.x

\* the wrapped column one to the right / one to the left
ColRight(x, sz) == IF x = sz.w - 1 THEN 0 ELSE x + 1
ColLeft(x, sz) == IF x = 0 THEN sz.w - 1 ELSE x - 1

\* variant of right without the wrap at the right edge
right_nowrap(p, sz) == Valid(TilePos(p.x + 1, p.y))

right(p, sz) == Valid(TilePos(ColRight(p.x, sz), p.y))

left(p, sz) == Valid(TilePos(ColLeft(p.x, sz), p.y))

\* variant of up_right without the wrap of the column at the right edge
up_right_nowrap(p, sz) ==
    LET y == p.y - 1
        x == IF p.x % 2 = 0 THEN p.x ELSE p.x + 1
    IN  IF y = -1 THEN Invalid(TilePos(x, y)) ELSE Valid(TilePos(x, y))

up_right(p, sz) ==
    LET y == p.y - 1
        x == IF p.x % 2 = 0 THEN p.x ELSE ColRight(p.x, sz)
    IN  IF y = -1 THEN Invalid(TilePos(x, y)) ELSE Valid(TilePos(x, y))

up_left(p, sz) ==
    LET y == p.y - 1
        x == IF p.x % 2 = 0 THEN ColLeft(p.x, sz) ELSE p.x
    IN  IF y = -1 THEN Invalid(TilePos(x, y)) ELSE Valid(TilePos(x, y))

down_left(p, sz) ==
    LET y == p.y + 1
        x == IF p.x % 2 = 0 THEN ColLeft(p.x, sz) ELSE p.x
    IN  IF y = sz.h THEN Invalid(TilePos(x, y)) ELSE Valid(TilePos(x, y))

down_right(p, sz) ==
    LET y == p.y + 1
        x == IF p.x % 2 = 0 THEN p.x ELSE ColRight(p.x, sz)
    IN  IF y = sz.h THEN Invalid(TilePos(x, y)) ELSE Valid(TilePos(x, y))

\* the TilePos method that belongs to a direction
PosNeighbor(p, dir, sz) ==
    CASE dir = "Right" -> right(p, sz)
      [] dir = "UpRight" -> up_right(p, sz)
      [] dir = "UpLeft" -> up_left(p, sz)
      [] dir = "Left" -> left(p, sz)
      [] dir = "DownLeft" -> down_left(p, sz)
      [] dir = "DownRight" -> down_right(p, sz)

GridSizes == {[w |-> w, h |-> h] : w \in 1..MaxW, h \in 1..MaxH}

Positions(sz) == {TilePos(x, y) : x \in 0..(sz.w - 1), y \in 0..(sz.h - 1)}

InGrid(p, sz) == p.x >= 0 /\ p.x < sz.w /\ p.y >= 0 /\ p.y < sz.h

(***************************************************************************)
(* NeighborDirection (plant/neighbor.rs; collection and opposite are not   *)
(* among the sources and follow the six slots of TileNeighbors/BridgeSet)  *)
(***************************************************************************)
id(dir) ==
    CASE dir = "Right" -> 2
      [] dir = "UpRight" -> 4
      [] dir = "UpLeft" -> 5
      [] dir = "Left" -> 3
      [] dir = "DownLeft" -> 1
      [] dir = "DownRight" -> 0

collection == <<"Right", "UpRight", "UpLeft", "Left", "DownLeft", "DownRight">>

opposite(dir) ==
    CASE dir = "Right" -> "Left"
      [] dir = "UpRight" -> "DownLeft"
      [] dir = "UpLeft" -> "DownRight"
      [] dir = "Left" -> "Right"
      [] dir = "DownLeft" -> "UpRight"
      [] dir = "DownRight" -> "UpLeft"

(***************************************************************************)
(* Bridges (plant/bridge)                                                  *)
(***************************************************************************)
None == [bridge |-> "None", exiting |-> FALSE, energy_capacity |-> 0, energy_transfer |-> "Closed"]

IsSome(b) == b.bridge # "None"

Bridge(kind, exiting, capacity, mode) ==
    [bridge |-> kind, exiting |-> exiting, energy_capacity |-> capacity, energy_transfer |-> mode]

NoBridges == [d \in Directions |-> None]

TransferMode_get_opposite(mode) ==
    CASE mode = "Out" -> "In"
      [] mode = "In" -> "Out"
      [] mode = "Open" -> "Open"
      [] mode = "Closed" -> "Closed"

\* variant of can_receive that refuses only a Closed bridge
can_receive_unclosed(mode) == mode # "Closed"

can_receive(mode) == mode \in {"In", "Open"}

can_transmit(mode) == mode \in {"Out", "Open"}

\* variant of get_opposite that keeps the transfer mode of this end
get_opposite_same_mode(b) ==
    [bridge |-> b.bridge,
     exiting |-> ~b.exiting,
     energy_capacity |-> b.energy_capacity,
     energy_transfer |-> b.energy_transfer]

get_opposite(b) ==
    [bridge |-> b.bridge,
     exiting |-> ~b.exiting,
     energy_capacity |-> b.energy_capacity,
     energy_transfer |-> TransferMode_get_opposite(b.energy_transfer)]

Bridge_get_energy_cost_transfer_energy(b, ms) ==
    IF b.bridge = "Log"
    THEN FMul(ms.energy.transfer.energy.log, b.energy_capacity)
    ELSE FMul(FMul(ms.energy.transfer.energy.branch, b.energy_capacity), b.energy_capacity)

Bridge_get_energy_cost_build_base(b, ms) ==
    IF b.bridge = "Log" THEN ms.energy.base.bridge.log ELSE ms.energy.base.bridge.branch

Bridge_get_energy_cost_factor_run(b, ms) ==
    IF b.bridge = "Log" THEN ms.energy.running.bridge.log ELSE ms.energy.running.bridge.branch

Bridge_get_energy_cost_build(b, ms) ==
    Bridge_get_energy_cost_build_base(b, ms) + Bridge_get_energy_cost_transfer_energy(b, ms)

Bridge_get_energy_cost_run(b, ms) ==
    FMul(Bridge_get_energy_cost_factor_run(b, ms), Bridge_get_energy_cost_build(b, ms))

\* BridgeSet::iter, in slot order, as the sequence of the bridges that exist
RECURSIVE SelectSome(_, _)
SelectSome(bridges, dirs) ==
    IF dirs = <<>> THEN <<>>
    ELSE IF IsSome(bridges[Head(dirs)])
         THEN <<bridges[Head(dirs)]>> \o SelectSome(bridges, Tail(dirs))
         ELSE SelectSome(bridges, Tail(dirs))

BridgeSet_iter(bridges) == SelectSome(bridges, collection)

(***************************************************************************)
(* Bulk (plant/bulk): per-kind transparency and cost functions             *)
(***************************************************************************)
Bulk(kind, absorption) == [kind |-> kind, absorption |-> absorption]

Bulk_get_transparency(bulk, ms) ==
    CASE bulk.kind = "Log" -> ms.transparency.log
      [] bulk.kind = "SugarBulb" -> ms.transparency.sugar_bulb
      [] bulk.kind = "Leaf" -> FMul(ms.transparency.leaf, Unit - bulk.absorption)
      [] bulk.kind = "Seed" -> ms.transparency.seed

Bulk_get_energy_cost_storage_energy(bulk, ms, capacity) ==
    CASE bulk.kind = "Log" -> FMul(ms.energy.storage.energy.log, capacity)
      [] bulk.kind = "SugarBulb" -> FMul(ms.energy.storage.energy.sugar_bulb, capacity)
      [] bulk.kind = "Leaf" -> FMul(FMul(ms.energy.storage.energy.leaf, capacity), capacity)
      [] bulk.kind = "Seed" -> FMul(ms.energy.storage.energy.seed, capacity)

Bulk_get_energy_cost_build_base(bulk, ms) ==
    CASE bulk.kind = "Log" -> ms.energy.base.bulk.log
      [] bulk.kind = "SugarBulb" -> ms.energy.base.bulk.sugar_bulb
      [] bulk.kind = "Leaf" ->
            ms.energy.base.bulk.leaf + FDiv(ms.energy.production.leaf, Unit - bulk.absorption)
      [] bulk.kind = "Seed" -> ms.energy.base.bulk.seed

Bulk_get_energy_cost_factor_run(bulk, ms) ==
    CASE bulk.kind = "Log" -> ms.energy.running.bulk.log
      [] bulk.kind = "SugarBulb" -> ms.energy.running.bulk.sugar_bulb
      [] bulk.kind = "Leaf" -> ms.energy.running.bulk.leaf
      [] bulk.kind = "Seed" -> ms.energy.running.bulk.seed

Bulk_get_energy_gain(bulk, ms, tile) ==
    IF bulk.kind = "Leaf" THEN FMul(tile.light, bulk.absorption) ELSE 0

(***************************************************************************)
(* Spread and plant::State values (plant/spread.rs, plant/state.rs)        *)
(***************************************************************************)
SpreadNothing == [tag |-> "Nothing"]
Trying(plant, energy, dir) == [tag |-> "Trying", plant |-> plant, energy |-> energy, dir |-> dir]
Waiting(energy, dir) == [tag |-> "Waiting", energy |-> energy, dir |-> dir]

Nothing == [tag |-> "Nothing"]
Building(plant, energy, dir) == [tag |-> "Building", plant |-> plant, energy |-> energy, dir |-> dir]
Occupied(plant) == [tag |-> "Occupied", plant |-> plant]
Panic == [tag |-> "Panic"]

Tile(plant, transparency, light) == [plant |-> plant, transparency |-> transparency, light |-> light]

Tile_new == Tile(Nothing, Unit, 0)

(***************************************************************************)
(* TileNeighbors (map/tile/neighbor.rs)                                    *)
(***************************************************************************)
NeighborEmpty == [tag |-> "Empty"]
NeighborTile(tile) == [tag |-> "Tile", tile |-> tile]
NeighborSunTile(intensity) == [tag |-> "SunTile", intensity |-> intensity]

\* the sun tile handed to a row-0 tile: the column of the tile itself
SunColumn(p, r) == p.x

TileNeighbors_new(ts, sn, sz, p) ==
    [d \in Directions |->
        LET r == PosNeighbor(p, d, sz)
        IN  IF r.valid THEN NeighborTile(ts[to_index(r.pos, sz) + 1])
            ELSE IF d \in {"UpRight", "UpLeft"}
                 THEN NeighborSunTile(sn[SunColumn(p, r) + 1])
                 ELSE NeighborEmpty]

\* TileNeighbors::get: the slot of a direction
TileNeighbors_get(neighbors, dir) == neighbors[dir]

\* the neighbour in a direction is a tile holding an Occupied plant that is alive
AliveOccupied(n) ==
    /\ n.tag = "Tile"
    /\ n.tile.plant.tag = "Occupied"
    /\ n.tile.plant.plant.alive

(***************************************************************************)
(* Plant (plant/mod.rs)                                                    *)
(***************************************************************************)
Plant(bulk, bridges, alive, energy, capacity, reserve, spread) ==
    [bulk |-> bulk, bridges |-> bridges, age |-> 0, cum_age |-> 0, alive |-> alive,
     energy |-> energy, energy_capacity |-> capacity, energy_reserve |-> reserve,
     spread |-> spread]

RECURSIVE SumSeq(_)
SumSeq(s) == IF s = <<>> THEN 0 ELSE Head(s) + SumSeq(Tail(s))

\* 0.5 * x
Half(x) == FMul(Unit \div 2, x)

Plant_get_transparency(plant, ms) == Bulk_get_transparency(plant.bulk, ms)

get_bulk_energy_cost_build(plant, ms) ==
    Bulk_get_energy_cost_build_base(plant.bulk, ms)
        + Bulk_get_energy_cost_storage_energy(plant.bulk, ms, plant.energy_capacity)

get_bulk_energy_cost_run(plant, ms) ==
    FMul(get_bulk_energy_cost_build(plant, ms), Bulk_get_energy_cost_factor_run(plant.bulk, ms))

get_energy_cost_build(plant, ms) ==
    LET bs == BridgeSet_iter(plant.bridges)
    IN  get_bulk_energy_cost_build(plant, ms)
            + SumSeq([i \in 1..Len(bs) |-> Half(Bridge_get_energy_cost_build(bs[i], ms))])

get_energy_cost_run(plant, ms) ==
    LET bs == BridgeSet_iter(plant.bridges)
    IN  get_bulk_energy_cost_run(plant, ms)
            + SumSeq([i \in 1..Len(bs) |-> Half(Bridge_get_energy_cost_run(bs[i], ms))])

get_energy_gain(plant, ms, tile) == Bulk_get_energy_gain(plant.bulk, ms, tile)

\* (x - reserve) / 6, floored at zero: the share offered to one neighbour
\* variant of the share that offers the whole surplus to each neighbour
Share_whole(plant) == FMax(plant.energy - plant.energy_reserve, 0)

Share(plant) == FMax(TruncDiv(plant.energy - plant.energy_reserve, 6), 0)

\* (capacity - reserve) / 6 - share: the room left for one neighbour
\* variant of the room that offers the whole free capacity to each neighbour
Room_whole(plant) == (plant.energy_capacity - plant.energy_reserve) - Share(plant)

Room(plant) == TruncDiv(plant.energy_capacity - plant.energy_reserve, 6) - Share(plant)

\* variant of clamp that saturates instead of panicking when lo > hi
clamp_saturating(x, lo, hi) ==
    [ok |-> TRUE, v |-> IF x < lo THEN lo ELSE IF x > hi THEN hi ELSE x]

\* f64::clamp: aborts when the lower bound exceeds the upper bound
clamp(x, lo, hi) ==
    IF lo > hi THEN [ok |-> FALSE, v |-> 0]
    ELSE [ok |-> TRUE, v |-> IF x < lo THEN lo ELSE IF x > hi THEN hi ELSE x]

\* the term of one bridge toward an alive Occupied neighbour (the closure body)
TransferTerm(self, bridge, plant) ==
    LET self_energy == Share(self)
        self_capacity == Room(self)
        neighbor_energy == Share(plant)
        neighbor_capacity == Room(plant)
        lower == IF can_transmit(bridge.energy_transfer)
                 THEN -FMin(bridge.energy_capacity, neighbor_capacity)
                 ELSE 0
        upper == IF can_receive(bridge.energy_transfer)
                 THEN FMin(bridge.energy_capacity, self_capacity)
                 ELSE 0
    IN  clamp(neighbor_energy - self_energy, lower, upper)

\* one direction of get_energy_transfer: Some(term), or None as the term 0
TransferDir(self, neighbors, dir) ==
    IF IsSome(self.bridges[dir]) /\ AliveOccupied(TileNeighbors_get(neighbors, dir))
    THEN TransferTerm(self, self.bridges[dir], TileNeighbors_get(neighbors, dir).tile.plant.plant)
    ELSE [ok |-> TRUE, v |-> 0]

get_energy_transfer(self, neighbors) ==
    LET terms == [i \in 1..Len(collection) |-> TransferDir(self, neighbors, collection[i])]
    IN  [ok |-> \A i \in 1..Len(terms) : terms[i].ok,
         v |-> SumSeq([i \in 1..Len(terms) |-> terms[i].v])]

\* variant of remove_bridges that keeps the bridges toward Occupied neighbours, dead or alive
remove_bridges_occupied(bridges, neighbors) ==
    [d \in Directions |->
        IF TileNeighbors_get(neighbors, d).tag = "Tile"
              /\ TileNeighbors_get(neighbors, d).tile.plant.tag = "Occupied"
        THEN bridges[d] ELSE None]

\* variant of remove_bridges that prunes nothing
remove_bridges_keep_all(bridges, neighbors) == bridges

remove_bridges(bridges, neighbors) ==
    [d \in Directions |->
        IF AliveOccupied(TileNeighbors_get(neighbors, d)) THEN bridges[d] ELSE None]

\* spread_resolve: the bridge set and the energy it leaves
spread_resolve(bridges, direction, energy, self_energy, neighbors) ==
    LET n == TileNeighbors_get(neighbors, direction)
        spliced ==
            /\ n.tag = "Tile"
            /\ n.tile.plant.tag = "Building"
            /\ n.tile.plant.dir = direction
            /\ IsSome(n.tile.plant.plant.bridges[opposite(direction)])
    IN  IF spliced
        THEN [bridges |-> [bridges EXCEPT ![direction] =
                              get_opposite(n.tile.plant.plant.bridges[opposite(direction)])],
              energy |-> self_energy]
        ELSE [bridges |-> bridges, energy |-> self_energy + energy]

mutate(plant, ms) == plant

\* min(capacity, total): the cap on the energy of a forwarded plant
\* variant of the energy cap that leaves the total as it is
CapEnergy_uncapped(total, capacity) == total

CapEnergy(total, capacity) == FMin(total, capacity)

\* variant of the alive flag that ignores the bridges
NewAlive_energy_only(bridges, new_energy) == new_energy >= 0

\* variant of the alive flag that counts exiting bridges as well
NewAlive_any_bridge(bridges, new_energy) ==
    (\E d \in Directions : IsSome(bridges[d])) /\ new_energy >= 0

\* the alive flag of a forwarded plant
NewAlive(bridges, new_energy) ==
    (\E d \in Directions : IsSome(bridges[d]) /\ ~bridges[d].exiting) /\ new_energy >= 0

\* Plant::forward: [tag |-> "None"], [tag |-> "Some", plant |-> ...] or Panic
Plant_forward(self, ms, tile, neighbors) ==
    IF ~self.alive THEN [tag |-> "None"]
    ELSE
        LET pruned == remove_bridges(self.bridges, neighbors)
            res == CASE self.spread.tag = "Nothing" ->
                            [spread |-> SpreadNothing, bridges |-> pruned, energy |-> self.energy]
                     [] self.spread.tag = "Trying" ->
                            [spread |-> Waiting(self.spread.energy, self.spread.dir),
                             bridges |-> pruned, energy |-> self.energy]
                     [] self.spread.tag = "Waiting" ->
                            LET r == spread_resolve(pruned, self.spread.dir, self.spread.energy,
                                                    self.energy, neighbors)
                            IN  [spread |-> SpreadNothing, bridges |-> r.bridges,
                                 energy |-> r.energy]
            cost_energy == get_energy_cost_run(self, ms)
            gain_energy == get_energy_gain(self, ms, tile)
            transfer_energy == get_energy_transfer(self, neighbors)
            new_energy == CapEnergy(res.energy + gain_energy + transfer_energy.v - cost_energy,
                                    self.energy_capacity)
            new_alive == NewAlive(res.bridges, new_energy)
        IN  IF ~transfer_energy.ok THEN Panic
            ELSE [tag |-> "Some",
                  plant |-> [bulk |-> self.bulk,
                             bridges |-> res.bridges,
                             age |-> self.age + 1,
                             cum_age |-> self.cum_age + 1,
                             alive |-> new_alive,
                             energy |-> new_energy,
                             energy_capacity |-> self.energy_capacity,
                             energy_reserve |-> self.energy_reserve,
                             spread |-> res.spread]]

(***************************************************************************)
(* plant::State (plant/state.rs)                                           *)
(***************************************************************************)
State_get_transparency(state, ms) ==
    IF state.tag = "Nothing" THEN Unit ELSE Plant_get_transparency(state.plant, ms)

\* the directions in which try_spread finds a candidate
SpreadCandidates(neighbors) ==
    {d \in Directions :
        LET n == TileNeighbors_get(neighbors, d)
        IN  /\ n.tag = "Tile"
            /\ n.tile.plant.tag = "Occupied"
            /\ n.tile.plant.plant.spread.tag = "Trying"
            /\ n.tile.plant.plant.spread.dir = d}

\* min_by_key over the ids of the candidates' directions
\* variant of the priority that picks the highest id
MinById_highest(ds) == CHOOSE d \in ds : \A e \in ds : id(d) >= id(e)

MinById(ds) == CHOOSE d \in ds : \A e \in ds : id(d) <= id(e)

try_spread(ms, neighbors) ==
    LET cands == SpreadCandidates(neighbors)
    IN  IF cands = {} THEN Nothing
        ELSE LET d == MinById(cands)
                 spread == TileNeighbors_get(neighbors, d).tile.plant.plant.spread
             IN  Building(mutate(spread.plant, ms), spread.energy, spread.dir)

\* the energy try_build charges for the proposed plant
\* variant of the build cost that charges no bridge
BuildCost_bulk_only(new_plant, dir, ms) == get_bulk_energy_cost_build(new_plant, ms)

BuildCost(new_plant, dir, ms) ==
    get_energy_cost_build(new_plant, ms)
        + (IF IsSome(new_plant.bridges[dir])
           THEN Half(Bridge_get_energy_cost_build(new_plant.bridges[dir], ms))
           ELSE 0)

try_build(ms, input, neighbors) ==
    IF AliveOccupied(TileNeighbors_get(neighbors, input.dir))
    THEN LET cost_energy == BuildCost(input.plant, input.dir, ms)
             plant_energy == input.energy - cost_energy
         IN  IF plant_energy < 0 THEN Nothing
             ELSE Occupied([input.plant EXCEPT
                               !.energy = FMin(plant_energy, input.plant.energy_capacity)])
    ELSE Nothing

State_forward(state, ms, tile, neighbors) ==
    CASE state.tag = "Nothing" -> try_spread(ms, neighbors)
      [] state.tag = "Building" -> try_build(ms, state, neighbors)
      [] state.tag = "Occupied" ->
            LET r == Plant_forward(state.plant, ms, tile, neighbors)
            IN  CASE r.tag = "Some" -> Occupied(r.plant)
                  [] r.tag = "None" -> Nothing
                  [] r.tag = "Panic" -> Panic

(***************************************************************************)
(* Tile (map/tile/simulation/mod.rs)                                       *)
(***************************************************************************)
\* variant of forward_transparency that leaves out the base transparency
forward_transparency_state(tile, ms, neighbors) == State_get_transparency(tile.plant, ms)

forward_transparency(tile, ms, neighbors) ==
    FMul(ms.transparency.base, State_get_transparency(tile.plant, ms))

\* variant of the light of a neighbour that ignores its transparency
LightFrom_unattenuated(n) ==
    CASE n.tag = "Empty" -> 0
      [] n.tag = "Tile" -> n.tile.light
      [] n.tag = "SunTile" -> n.intensity

LightFrom(n) ==
    CASE n.tag = "Empty" -> 0
      [] n.tag = "Tile" -> FMul(n.tile.light, n.tile.transparency)
      [] n.tag = "SunTile" -> n.intensity

\* variant of forward_light that adds the two contributions without halving
forward_light_sum(tile, ms, neighbors) ==
    LightFrom(neighbors["UpRight"]) + LightFrom(neighbors["UpLeft"])

\* variant of forward_light that reads the upper right neighbour only
forward_light_right(tile, ms, neighbors) == Half(LightFrom(neighbors["UpRight"]))

forward_light(tile, ms, neighbors) ==
    Half(LightFrom(neighbors["UpRight"]) + LightFrom(neighbors["UpLeft"]))

\* Tile::forward; a panic of the plant's transition is carried in the plant field
Tile_forward(tile, ms, neighbors) ==
    [plant |-> State_forward(tile.plant, ms, tile, neighbors),
     transparency |-> forward_transparency(tile, ms, neighbors),
     light |-> forward_light(tile, ms, neighbors)]

(***************************************************************************)
(* Map (map/mod.rs)                                                        *)
(***************************************************************************)
\* cos(dist * MATH_PI) for 0 <= dist <= 0.5, by the rational approximation
\* (1 - 4 d^2) / (1 + d^2), exact at 0, 1/3 and 1/2
cos_pi(dist) == FDiv(Unit - 4 * FMul(dist, dist), Unit + FMul(dist, dist))

\* x % 1.0 on f64: the remainder has the sign of x
Fract(x) == x - Unit * TruncDiv(x, Unit)

FAbs(x) == IF x < 0 THEN -x ELSE x

SunTileAt(index, sz, sn) ==
    LET p == TruncDiv(index * Unit, sz.w)
        d0 == FAbs(p - sn.position)
        dist == IF d0 > Unit \div 2 THEN Unit - d0 ELSE d0
    IN  FMul(sn.intensity, cos_pi(dist))

SunState_new == [intensity |-> Unit, position |-> 0]

\* the array a tile's transition reads: the array as it was before the step
\* variant of the read that sees the tiles already updated in this step
ReadSource_in_place(snapshot, acc) == acc

ReadSource(snapshot, acc) == snapshot

\* the map over the tiles, taken in the given order of indices
RECURSIVE ForwardFold(_, _, _, _, _, _)
ForwardFold(snapshot, acc, order, sn, sz, ms) ==
    IF order = <<>> THEN acc
    ELSE LET i == Head(order)
             src == ReadSource(snapshot, acc)
             new == Tile_forward(src[i + 1], ms,
                                 TileNeighbors_new(src, sn, sz, from_index(i, sz)))
         IN  ForwardFold(snapshot, [acc EXCEPT ![i + 1] = new], Tail(order), sn, sz, ms)

ForwardOrder(n) == [i \in 1..n |-> i - 1]
ReverseOrder(n) == [i \in 1..n |-> n - i]

StepTiles(order) == ForwardFold(tiles, tiles, order, sun_tiles, size, settings)

Panics(ts) == \E i \in 1..Len(ts) : ts[i].plant.tag = "Panic"

Map_new(sz, ms) ==
    [tiles |-> [i \in 1..(sz.w * sz.h) |-> Tile_new],
     sun_tiles |-> [i \in 1..sz.w |-> 0],
     sun |-> SunState_new,
     size |-> sz,
     settings |-> ms]

\* Map::step; a panic inside it unwinds before any field is assigned
step ==
    /\ tiles # <<>>
    /\ ~panicked
    /\ steps < MaxSteps
    /\ LET new_tiles == StepTiles(ForwardOrder(Len(tiles)))
           position == Fract(sun.position + settings.sun_speed)
           new_sun == [sun EXCEPT !.position = position]
       IN  IF Panics(new_tiles)
           THEN /\ panicked' = TRUE
                /\ UNCHANGED <<tiles, sun, sun_tiles, steps>>
           ELSE /\ tiles' = new_tiles
                /\ sun' = new_sun
                /\ sun_tiles' = [i \in 1..size.w |-> SunTileAt(i - 1, size, new_sun)]
                /\ steps' = steps + 1
                /\ panicked' = FALSE
    /\ UNCHANGED <<size, settings, initial, pos, nb, xfer>>

(***************************************************************************)
(* Topology walk: a position moved around the grid by the six neighbour    *)
(* methods.                                                               *)
(***************************************************************************)
NoNb == [dir |-> "None", valid |-> TRUE, pos |-> TilePos(0, 0)]

Idle == [a |-> "none"]

InitTopo ==
    /\ size \in GridSizes
    /\ pos \in Positions(size)
    /\ nb = NoNb
    /\ tiles = <<>>
    /\ sun_tiles = <<>>
    /\ sun = Idle
    /\ settings = Idle
    /\ steps = 0
    /\ initial = <<>>
    /\ panicked = FALSE
    /\ xfer = Idle

Walk(dir) ==
    LET r == PosNeighbor(pos, dir, size)
    IN  /\ nb' = [dir |-> dir, valid |-> r.valid, pos |-> r.pos]
        /\ pos' = IF r.valid THEN r.pos ELSE pos
        /\ UNCHANGED <<size, tiles, sun_tiles, sun, settings, steps, initial, panicked, xfer>>

WalkRight == Walk("Right")
WalkUpRight == Walk("UpRight")
WalkUpLeft == Walk("UpLeft")
WalkLeft == Walk("Left")
WalkDownLeft == Walk("DownLeft")
WalkDownRight == Walk("DownRight")

NextTopo ==
    \/ WalkRight
    \/ WalkUpRight
    \/ WalkUpLeft
    \/ WalkLeft
    \/ WalkDownLeft
    \/ WalkDownRight

SpecTopo == InitTopo /\ [][NextTopo]_vars

(***************************************************************************)
(* The simulated grid: initial grids and the specification                 *)
(***************************************************************************)
R(n) == n * Unit

SimSize == [w |-> GridW, h |-> GridH]

FourKinds(v) == [log |-> v, sugar_bulb |-> v, leaf |-> v, seed |-> v]

\* Settings::new() of every settings module, and MapSettings::new() for sun_speed
DefaultSettings ==
    [transparency |-> [base |-> Unit, log |-> 0, sugar_bulb |-> 0, leaf |-> Unit, seed |-> 0],
     energy |->
        [base |-> [bridge |-> [log |-> 0, branch |-> 0], bulk |-> FourKinds(0)],
         production |-> [leaf |-> Unit],
         storage |-> [energy |-> FourKinds(Unit)],
         transfer |-> [energy |-> [log |-> Unit, branch |-> Unit]],
         running |-> [bridge |-> [log |-> 0, branch |-> 0], bulk |-> FourKinds(0)]],
     sun_speed |-> 0]

\* a Settings value with non-zero base costs, run factors and sun speed
CostlySettings ==
    [transparency |-> [base |-> Unit \div 2, log |-> Unit \div 2, sugar_bulb |-> 0,
                       leaf |-> Unit, seed |-> 0],
     energy |->
        [base |-> [bridge |-> [log |-> Unit, branch |-> Unit \div 2], bulk |-> FourKinds(R(2))],
         production |-> [leaf |-> Unit],
         storage |-> [energy |-> FourKinds(Unit)],
         transfer |-> [energy |-> [log |-> Unit, branch |-> Unit]],
         running |-> [bridge |-> [log |-> Unit \div 6, branch |-> Unit \div 6],
                      bulk |-> FourKinds(Unit \div 12)]],
     sun_speed |-> Unit \div 4]

LogBulk == Bulk("Log", 0)
LeafBulk == Bulk("Leaf", Unit \div 2)

\* energy, capacity and reserve of the plants placed on the initial grid
Profile(name) ==
    CASE name = "normal" -> [energy |-> R(12), capacity |-> R(72), reserve |-> R(6)]
      [] name = "full" -> [energy |-> R(24), capacity |-> R(24), reserve |-> R(6)]
      [] name = "low" -> [energy |-> 0, capacity |-> 0, reserve |-> R(6)]
      [] name = "ten" -> [energy |-> R(10), capacity |-> R(10), reserve |-> 0]

ProfiledPlant(bulk, name, bridges, spread) ==
    Plant(bulk, bridges, TRUE, Profile(name).energy, Profile(name).capacity,
          Profile(name).reserve, spread)

\* the offspring proposed by a spread in direction d: a Log without resources whose only
\* bridge is in the slot facing back along d ("toward"), in slot d ("slot"), or absent
Template(d, shape) ==
    Plant(LogBulk,
          CASE shape = "toward" ->
                    [NoBridges EXCEPT ![opposite(d)] = Bridge("Log", FALSE, R(6), "Open")]
            [] shape = "slot" -> [NoBridges EXCEPT ![d] = Bridge("Log", FALSE, R(6), "Open")]
            [] shape = "both" ->
                    [NoBridges EXCEPT ![opposite(d)] = Bridge("Log", FALSE, R(6), "Open"),
                                      ![d] = Bridge("Branch", FALSE, R(2), "Open")]
            [] shape = "none" -> NoBridges,
          TRUE, 0, R(12), 0, SpreadNothing)

SpreadVariants == {<<"toward", 48>>, <<"toward", 6>>, <<"slot", 24>>, <<"both", 30>>}

TryingOf(d, variant) == Trying(Template(d, variant[1]), R(variant[2]), d)

\* the bridge the placed plant M holds toward its anchor Q, by kind of link
LinkBridge(link) ==
    CASE link = "mother" -> Bridge("Log", FALSE, R(6), "Open")
      [] link = "child" -> Bridge("Log", TRUE, R(6), "Open")
      [] link = "closed" -> Bridge("Branch", FALSE, R(2), "Closed")
      [] link = "low" -> Bridge("Log", FALSE, R(6), "Open")

LinkPlant(link, bridges) ==
    CASE link = "mother" -> ProfiledPlant(LogBulk, "normal", bridges, SpreadNothing)
      [] link = "child" -> ProfiledPlant(LeafBulk, "full", bridges, SpreadNothing)
      [] link = "closed" -> ProfiledPlant(LogBulk, "normal", bridges, SpreadNothing)
      [] link = "low" -> ProfiledPlant(LogBulk, "low", bridges, SpreadNothing)

Links == {"mother", "child", "closed", "low"}

NoAnchor == [link |-> "none", dir |-> "Right"]
NoSpreader == [at |-> -1, dir |-> "Right"]

\* a tile holding a plant, with the transparency its bulk gives it
PlantTile(plant, ms) ==
    Tile(Occupied(plant), FMul(ms.transparency.base, Plant_get_transparency(plant, ms)), 0)

\* The grid with plant M at index m (profile mp, spread mspread), its anchor Q (a
\* neighbour joined to M by a mirrored pair of bridges, placed only where the two
\* tiles are each other's neighbours in opposite directions) and a second spreading
\* plant P; the rest of the grid is empty.
Scenario(sz, ms, m, mp, mspread, anchor, spreader) ==
    LET pm == from_index(m, sz)
        qn == PosNeighbor(pm, anchor.dir, sz)
        back == PosNeighbor(qn.pos, opposite(anchor.dir), sz)
        q == IF anchor.link # "none" /\ qn.valid /\ to_index(qn.pos, sz) # m
                /\ back.valid /\ back.pos = pm
             THEN to_index(qn.pos, sz) ELSE -1
        mbridges == IF q = -1 THEN NoBridges
                    ELSE [NoBridges EXCEPT ![anchor.dir] = LinkBridge(anchor.link)]
        qbridges == [NoBridges EXCEPT ![opposite(anchor.dir)] =
                        get_opposite(LinkBridge(anchor.link))]
        pAt == IF spreader.at \in {m, q} THEN -1 ELSE spreader.at
    IN  [i \in 1..(sz.w * sz.h) |->
            CASE i - 1 = m -> PlantTile(ProfiledPlant(LogBulk, mp, mbridges, mspread), ms)
              [] i - 1 = q /\ q # m -> PlantTile(LinkPlant(anchor.link, qbridges), ms)
              [] i - 1 = pAt /\ pAt # m /\ pAt # q ->
                    PlantTile(ProfiledPlant(LogBulk, "normal", NoBridges,
                                            TryingOf(spreader.dir, <<"toward", 6>>)), ms)
              [] OTHER -> Tile_new]

\* the indices of the tiles in the first two columns and rows: both column parities,
\* a row at the top edge and a row below it
MotherIndices(sz) ==
    {i \in 0..(sz.w * sz.h - 1) : from_index(i, sz).x < 2 /\ from_index(i, sz).y < 2}

\* the indices where the second spreader is placed: the tiles around those of M
SpreaderIndices(sz) ==
    {i \in 0..(sz.w * sz.h - 1) : from_index(i, sz).x < 4 /\ from_index(i, sz).y < 2}

Anchors ==
    {NoAnchor, [link |-> "mother", dir |-> "Left"], [link |-> "mother", dir |-> "UpRight"],
     [link |-> "closed", dir |-> "DownLeft"], [link |-> "closed", dir |-> "Left"]}

\* spread scenarios: default settings, a spreading M, a few anchors, a second spreader
SpreadGrids(sz) ==
    {Scenario(sz, DefaultSettings, m, mp, TryingOf(d, v), a, NoSpreader) :
        m \in MotherIndices(sz), mp \in {"normal", "full"}, d \in Directions,
        v \in SpreadVariants, a \in Anchors}
    \cup
    {Scenario(sz, DefaultSettings, m, "normal", TryingOf(d, <<"toward", 48>>), a,
              [at |-> p, dir |-> d2]) :
        m \in MotherIndices(sz), d \in Directions, a \in Anchors,
        p \in SpreaderIndices(sz), d2 \in Directions}

\* link scenarios: M without or with one fixed spread, every kind of link in every direction
LinkGrids(sz, ms) ==
    {Scenario(sz, ms, m, mp, sp, [link |-> l, dir |-> dq], NoSpreader) :
        m \in MotherIndices(sz), mp \in {"normal", "full", "ten"},
        sp \in {SpreadNothing, TryingOf("Right", <<"toward", 48>>)},
        l \in Links \cup {"none"}, dq \in Directions}

InitialGrids(sz, ms) ==
    IF ms = DefaultSettings
    THEN SpreadGrids(sz) \cup LinkGrids(sz, ms) \cup {Map_new(sz, ms).tiles}
    ELSE LinkGrids(sz, ms) \cup {Map_new(sz, ms).tiles}

Init ==
    /\ size = SimSize
    /\ settings \in {DefaultSettings, CostlySettings}
    /\ tiles \in InitialGrids(size, settings)
    /\ sun_tiles = Map_new(size, settings).sun_tiles
    /\ sun = Map_new(size, settings).sun
    /\ steps = 0
    /\ initial = tiles
    /\ panicked = FALSE
    /\ pos = TilePos(0, 0)
    /\ nb = NoNb
    /\ xfer = Idle

Next == step

Spec == Init /\ [][Next]_vars

\* The running simulation: the map is constructed empty and without plants to step,
\* the grid is populated once, and the simulation loop then calls step again and
\* again, so a step that can be taken is taken.
InitLive ==
    /\ size = SimSize
    /\ settings = DefaultSettings
    /\ tiles = <<>>
    /\ sun_tiles = Map_new(size, settings).sun_tiles
    /\ sun = Map_new(size, settings).sun
    /\ steps = 0
    /\ initial = <<>>
    /\ panicked = FALSE
    /\ pos = TilePos(0, 0)
    /\ nb = NoNb
    /\ xfer = Idle

populate ==
    /\ tiles = <<>>
    /\ settings' \in {DefaultSettings, CostlySettings}
    /\ tiles' \in InitialGrids(size, settings')
    /\ initial' = tiles'
    /\ UNCHANGED <<size, sun_tiles, sun, steps, panicked, pos, nb, xfer>>

NextLive ==
    \/ populate
    \/ step

\* a call of step as the two counters show it: it either completes and is counted, or
\* panics; step is the only action that changes either counter
stepping ==
    /\ tiles # <<>>
    /\ ~panicked
    /\ steps < MaxSteps
    /\ \E p \in BOOLEAN :
          /\ panicked' = p
          /\ steps' = IF p THEN steps ELSE steps + 1

SpecLive == InitLive /\ [][NextLive]_vars /\ WF_<<steps, panicked>>(stepping)

(***************************************************************************)
(* Transfer harness: two plants side by side on a 2 x 1 grid, joined by    *)
(* one mirrored pair of bridges; the action computes get_energy_transfer   *)
(* at both tiles from the same snapshot.                                   *)
(***************************************************************************)
PairSize == [w |-> 2, h |-> 1]

TransferEnergies == {0, R(3), R(12), R(24)}
TransferCapacities == {0, R(12), R(24)}
TransferReserves == {0, R(6)}
TransferBridgeCaps == {R(1), R(6)}
TransferModes == {"Out", "In", "Open", "Closed"}

\* the second bridge of the pair: on a grid of width 2 each plant is also the other's
\* neighbour on the far side
SecondBridges == {None, Bridge("Branch", FALSE, R(1), "Open"), Bridge("Log", TRUE, R(6), "Out")}

PairPlant(energy, capacity, reserve, dir, bridge, second) ==
    Plant(LogBulk, [NoBridges EXCEPT ![dir] = bridge, ![opposite(dir)] = second],
          TRUE, energy, capacity, reserve, SpreadNothing)

NoTerms == [d \in Directions |-> [ok |-> TRUE, v |-> 0]]

InitTransfer ==
    /\ \E ea \in TransferEnergies, eb \in TransferEnergies,
          ca \in TransferCapacities, cb \in TransferCapacities,
          ra \in TransferReserves, rb \in TransferReserves,
          bc \in TransferBridgeCaps, mode \in TransferModes, b2 \in SecondBridges :
            LET b == Bridge("Log", TRUE, bc, mode)
            IN  /\ ea <= ca
                /\ eb <= cb
                /\ xfer = [a |-> "pair",
                            tiles |-> << PlantTile(PairPlant(ea, ca, ra, "Right", b, b2), DefaultSettings),
                                         PlantTile(PairPlant(eb, cb, rb, "Left", get_opposite(b),
                                                             get_opposite(b2)),
                                                   DefaultSettings) >>,
                            done |-> FALSE,
                            at_a |-> [ok |-> TRUE, v |-> 0],
                            at_b |-> [ok |-> TRUE, v |-> 0],
                            per_a |-> NoTerms,
                            per_b |-> NoTerms]
    /\ size = PairSize
    /\ tiles = <<>>
    /\ sun_tiles = <<>>
    /\ sun = Idle
    /\ settings = Idle
    /\ steps = 0
    /\ initial = <<>>
    /\ panicked = FALSE
    /\ pos = TilePos(0, 0)
    /\ nb = NoNb

\* the transfer of the plant at index i of the pair
PairTransfer(ts, i) ==
    get_energy_transfer(ts[i + 1].plant.plant,
                        TileNeighbors_new(ts, <<0, 0>>, PairSize, from_index(i, PairSize)))

\* the term of each direction for the plant at index i of the pair
PairTerms(ts, i) ==
    [d \in Directions |->
        TransferDir(ts[i + 1].plant.plant,
                    TileNeighbors_new(ts, <<0, 0>>, PairSize, from_index(i, PairSize)), d)]

ComputeTransfer ==
    /\ xfer.a = "pair"
    /\ ~xfer.done
    /\ xfer' = [xfer EXCEPT !.done = TRUE,
                            !.at_a = PairTransfer(xfer.tiles, 0),
                            !.at_b = PairTransfer(xfer.tiles, 1),
                            !.per_a = PairTerms(xfer.tiles, 0),
                            !.per_b = PairTerms(xfer.tiles, 1)]
    /\ UNCHANGED <<size, tiles, sun_tiles, sun, settings, steps, initial, panicked, pos, nb>>

NextTransfer == ComputeTransfer

SpecTransfer == InitTransfer /\ [][NextTransfer]_vars

(***************************************************************************)
(* Light harness: the tile update of Map::step on an empty grid under a    *)
(* sun whose tiles are held at one constant value.                         *)
(***************************************************************************)
SunLevels == {0, Unit \div 2, Unit, R(3)}

InitLight ==
    /\ size \in GridSizes
    /\ settings = DefaultSettings
    /\ tiles = Map_new(size, settings).tiles
    /\ \E k \in SunLevels : sun_tiles = [i \in 1..size.w |-> k]
    /\ sun = Idle
    /\ steps = 0
    /\ initial = tiles
    /\ panicked = FALSE
    /\ pos = TilePos(0, 0)
    /\ nb = NoNb
    /\ xfer = Idle

LightStep ==
    /\ steps < MaxSteps
    /\ tiles' = StepTiles(ForwardOrder(Len(tiles)))
    /\ steps' = steps + 1
    /\ UNCHANGED <<size, settings, sun_tiles, sun, initial, panicked, pos, nb, xfer>>

NextLight == LightStep

SpecLight == InitLight /\ [][NextLight]_vars

\* the simulation loop keeps calling step: a tile update that can be taken is taken
SpecLightLive == SpecLight /\ WF_vars(LightStep)

(***************************************************************************)
(* Sun intensity (map/sun): the year and day cycles, their composite and   *)
(* the sun tiles State::get_tiles builds from it.  Angles enter through    *)
(* the cosine, sine and tangent the code takes of them.                    *)
(***************************************************************************)
\* cos(2 * pi * f) for a fraction f of a turn in [0, 1[, from the quarter-turn cos_pi
cos_turn(f) ==
    LET h == 2 * f
    IN  IF h <= Unit \div 2 THEN cos_pi(h)
        ELSE IF h <= Unit THEN -cos_pi(Unit - h)
        ELSE IF 2 * h <= 3 * Unit THEN -cos_pi(h - Unit)
        ELSE cos_pi(2 * Unit - h)

\* f64::sqrt of a value >= 0
FSqrt(v) ==
    CHOOSE r \in 0..FMax(v, Unit) : r * r <= v * Unit /\ (r + 1) * (r + 1) > v * Unit

IntensityYearPlanet(sz, tan_tilt, cos_lat, sin_lat, year, intensity) ==
    [size |-> sz, tan_tilt |-> tan_tilt, cos_lat |-> cos_lat, sin_lat |-> sin_lat,
     year |-> year, intensity |-> intensity]

IntensityDayPlanet(sz, day) == [size |-> sz, day |-> day]

IntensityYearDay(year, day) == [year |-> year, day |-> day]

Year_get_intensity(self, tile, t) ==
    LET time_year == Fract(FDiv(R(t), self.year))
        x == FMul(cos_turn(time_year), self.tan_tilt)
        max_intensity == FSqrt(Unit + FMul(x, x))
    IN  << FDiv(FMul(self.intensity, self.cos_lat), max_intensity),
           FDiv(FMul(FMul(self.intensity, self.sin_lat), x), max_intensity) >>

Day_get_intensity(self, tile, t) ==
    LET time_day == Fract(FDiv(R(t), self.day) + Unit - FDiv(R(tile), R(self.size)))
    IN  << cos_turn(time_day), Unit >>

\* Intensity::iter, the default method: one pair per tile of the component's own size
Year_iter(self, t) == [c \in 1..self.size |-> Year_get_intensity(self, c - 1, t)]
Day_iter(self, t) == [c \in 1..self.size |-> Day_get_intensity(self, c - 1, t)]

\* variant of the composite that pairs each year component with the other day component
YearDay_combine_crossed(year, day) == << FMul(year[1], day[2]), FMul(year[2], day[1]) >>

\* the pair the composite makes of a year pair and a day pair
YearDay_combine(year, day) == << FMul(year[1], day[1]), FMul(year[2], day[2]) >>

YearDay_get_intensity(self, tile, t) ==
    YearDay_combine(Year_get_intensity(self.year, tile, t),
                    Day_get_intensity(self.day, tile, t))

\* IntensityYearDay::iter: the zip of the two component iterators
YearDay_iter(self, t) ==
    LET ys == Year_iter(self.year, t)
        ds == Day_iter(self.day, t)
    IN  [c \in 1..FMin(Len(ys), Len(ds)) |-> YearDay_combine(ys[c], ds[c])]

YearDay_get_size(self) == self.year.size

YearDay_set_size(self, sz) ==
    [year |-> [self.year EXCEPT !.size = sz], day |-> [self.day EXCEPT !.size = sz]]

\* State::get_tiles: Tile::new(intensity.0 + intensity.1) for every pair of the iterator
get_tiles(intensity, t) ==
    LET pairs == YearDay_iter(intensity, t)
    IN  [c \in 1..Len(pairs) |-> pairs[c][1] + pairs[c][2]]

(***************************************************************************)
(* Sun harness: a composite intensity built with the constructors' size of *)
(* one tile, the injection of the grid width, and get_tiles at a tick.     *)
(***************************************************************************)
SunTilts == {0, Unit \div 2}
SunLatitudes == {<<Unit, 0>>, <<(Unit * 4) \div 5, (Unit * 3) \div 5>>}
SunYears == {R(4), R(6)}
SunDays == {R(3), R(4)}

InitSun ==
    /\ size \in {sz \in GridSizes : sz.h = 1}
    /\ \E tt \in SunTilts, lat \in SunLatitudes, y \in SunYears, d \in SunDays :
          xfer = [a |-> "sun",
                  intensity |-> IntensityYearDay(
                                    IntensityYearPlanet(1, tt, lat[1], lat[2], y, Unit),
                                    IntensityDayPlanet(1, d)),
                  sized |-> FALSE,
                  t |-> 0,
                  out |-> <<>>,
                  out_sized |-> FALSE]
    /\ tiles = <<>>
    /\ sun_tiles = <<>>
    /\ sun = Idle
    /\ settings = Idle
    /\ steps = 0
    /\ initial = <<>>
    /\ panicked = FALSE
    /\ pos = TilePos(0, 0)
    /\ nb = NoNb

\* the grid width is injected into the composite
SunSetSize ==
    /\ xfer.a = "sun"
    /\ ~xfer.sized
    /\ xfer' = [xfer EXCEPT !.intensity = YearDay_set_size(xfer.intensity, size.w),
                            !.sized = TRUE]
    /\ UNCHANGED <<size, tiles, sun_tiles, sun, settings, steps, initial, panicked, pos, nb>>

SunGetTiles ==
    /\ xfer.a = "sun"
    /\ \E t \in 0..MaxSteps :
          xfer' = [xfer EXCEPT !.t = t, !.out = get_tiles(xfer.intensity, t),
                               !.out_sized = xfer.sized]
    /\ UNCHANGED <<size, tiles, sun_tiles, sun, settings, steps, initial, panicked, pos, nb>>

NextSun ==
    \/ SunSetSize
    \/ SunGetTiles

SpecSun == InitSun /\ [][NextSun]_vars

(***************************************************************************)
(* Read accessors of Map (map/mod.rs) and the conversion to instance data. *)
(***************************************************************************)
\* resolution of an f32 relative to the f64 fixed point: every second value exists
F32Step == 2

\* `value as f32`: rounds to the nearest f32, ties to the even one
as_f32(v) ==
    LET q == TruncDiv(v, F32Step)
        lo == F32Step * (IF v < 0 /\ q * F32Step # v THEN q - 1 ELSE q)
    IN  IF lo = v THEN v
        ELSE IF (lo \div F32Step) % 2 = 0 THEN lo
        ELSE lo + F32Step

InstanceTile(color_value) == [color_value |-> color_value]

DataModes == {"Light", "Transparency"}

\* variant of Tile::get_data_background with the two modes exchanged
get_data_background_swapped(tile, mode) ==
    InstanceTile(as_f32(IF mode = "Transparency" THEN tile.light ELSE tile.transparency))

\* Tile::get_data_background
get_data_background(tile, mode) ==
    InstanceTile(as_f32(IF mode = "Transparency" THEN tile.transparency ELSE tile.light))

\* sun::Tile::get_data
get_data(intensity) == InstanceTile(as_f32(intensity))

get_tile_data_background(mode) == [i \in 1..Len(tiles) |-> get_data_background(tiles[i], mode)]

get_sun_data == [i \in 1..Len(sun_tiles) |-> get_data(sun_tiles[i])]

(***************************************************************************)
(* View harness: a map fresh from Map::new, stepped and read through the   *)
(* two accessors.                                                          *)
(***************************************************************************)
InitView ==
    /\ size \in GridSizes
    /\ settings \in {DefaultSettings, CostlySettings}
    /\ tiles = Map_new(size, settings).tiles
    /\ sun_tiles = Map_new(size, settings).sun_tiles
    /\ sun = Map_new(size, settings).sun
    /\ steps = 0
    /\ initial = tiles
    /\ panicked = FALSE
    /\ pos = TilePos(0, 0)
    /\ nb = NoNb
    /\ xfer = Idle

ViewTiles ==
    /\ \E mode \in DataModes :
          xfer' = [a |-> "tile_data", mode |-> mode, out |-> get_tile_data_background(mode)]
    /\ UNCHANGED <<size, tiles, sun_tiles, sun, settings, steps, initial, panicked, pos, nb>>

ViewSun ==
    /\ xfer' = [a |-> "sun_data", mode |-> "Sun", out |-> get_sun_data]
    /\ UNCHANGED <<size, tiles, sun_tiles, sun, settings, steps, initial, panicked, pos, nb>>

NextView ==
    \/ step
    \/ ViewTiles
    \/ ViewSun

SpecView == InitView /\ [][NextView]_vars

(***************************************************************************)
(* Settings builders (map/settings): every `with_*` method of the tree, by *)
(* the identifier it carries after `with_` and the field it assigns.       *)
(***************************************************************************)
Builder(names, sets) == [names |-> names, sets |-> sets]

\* a builder whose identifier and assigned field agree
Plain(f) == Builder(f, f)

Settings_builders == {Plain("transparency"), Plain("energy")}

transparency_builders ==
    {Plain("base"), Plain("log"), Plain("sugar_bulb"), Plain("leaf"), Plain("seed")}

energy_builders ==
    {Plain("base"), Plain("production"), Plain("storage"), Plain("transfer"), Plain("running")}

\* with_log(settings: bridge::Settings) assigns self.bridge
base_builders == {Builder("log", "bridge"), Plain("bulk")}

base_bridge_builders == {Plain("log"), Plain("branch")}

production_builders == {Plain("leaf")}

storage_builders == {Plain("energy")}

storage_energy_builders == {Plain("log"), Plain("sugar_bulb"), Plain("leaf"), Plain("seed")}

transfer_builders == {Plain("energy")}

transfer_energy_builders == {Plain("log"), Plain("branch")}

\* with_log(settings: bridge::Settings) assigns self.bridge
running_builders == {Builder("log", "bridge"), Plain("bulk")}

running_bridge_builders == {Plain("log"), Plain("branch")}

running_bulk_builders == {Plain("log"), Plain("sugar_bulb"), Plain("leaf"), Plain("seed")}

SettingsKinds ==
    {"Settings", "transparency", "energy", "energy::base", "energy::base::bridge",
     "energy::production", "energy::storage", "energy::storage::energy",
     "energy::transfer", "energy::transfer::energy", "energy::running",
     "energy::running::bridge", "energy::running::bulk"}

\* the kinds whose fields are f64
F64Kinds ==
    {"transparency", "energy::base::bridge", "energy::production", "energy::storage::energy",
     "energy::transfer::energy", "energy::running::bridge", "energy::running::bulk"}

Builders(kind) ==
    CASE kind = "Settings" -> Settings_builders
      [] kind = "transparency" -> transparency_builders
      [] kind = "energy" -> energy_builders
      [] kind = "energy::base" -> base_builders
      [] kind = "energy::base::bridge" -> base_bridge_builders
      [] kind = "energy::production" -> production_builders
      [] kind = "energy::storage" -> storage_builders
      [] kind = "energy::storage::energy" -> storage_energy_builders
      [] kind = "energy::transfer" -> transfer_builders
      [] kind = "energy::transfer::energy" -> transfer_energy_builders
      [] kind = "energy::running" -> running_builders
      [] kind = "energy::running::bridge" -> running_bridge_builders
      [] kind = "energy::running::bulk" -> running_bulk_builders

\* the struct of the given kind inside a whole settings value
SettingsAt(ms, kind) ==
    CASE kind = "Settings" -> [transparency |-> ms.transparency, energy |-> ms.energy]
      [] kind = "transparency" -> ms.transparency
      [] kind = "energy" -> ms.energy
      [] kind = "energy::base" -> ms.energy.base
      [] kind = "energy::base::bridge" -> ms.energy.base.bridge
      [] kind = "energy::production" -> ms.energy.production
      [] kind = "energy::storage" -> ms.energy.storage
      [] kind = "energy::storage::energy" -> ms.energy.storage.energy
      [] kind = "energy::transfer" -> ms.energy.transfer
      [] kind = "energy::transfer::energy" -> ms.energy.transfer.energy
      [] kind = "energy::running" -> ms.energy.running
      [] kind = "energy::running::bridge" -> ms.energy.running.bridge
      [] kind = "energy::running::bulk" -> ms.energy.running.bulk

\* Settings::new() of the kind
Settings_new(kind) == SettingsAt(DefaultSettings, kind)

\* `self.<field> = <argument>; return self;`
with(self, kind, b, v) == [self EXCEPT ![b.sets] = v]

(***************************************************************************)
(* Settings harness: a struct of the tree, default-constructed, taken      *)
(* through any sequence of its builders.                                   *)
(***************************************************************************)
\* arguments for the field a builder assigns: numbers, or structs of the field's kind
BuilderArgs(kind, b) ==
    IF kind \in F64Kinds THEN {0, Unit \div 2, Unit}
    ELSE {Settings_new(kind)[b.sets], SettingsAt(CostlySettings, kind)[b.sets]}

InitSettings ==
    /\ \E kind \in SettingsKinds :
          xfer = [a |-> "settings", kind |-> kind, value |-> Settings_new(kind),
                  set |-> << >>]
    /\ size = [w |-> 1, h |-> 1]
    /\ tiles = <<>>
    /\ sun_tiles = <<>>
    /\ sun = Idle
    /\ settings = Idle
    /\ steps = 0
    /\ initial = <<>>
    /\ panicked = FALSE
    /\ pos = TilePos(0, 0)
    /\ nb = NoNb

\* one call of a builder; `set` keeps the last argument given under each identifier
SettingsWith ==
    /\ xfer.a = "settings"
    /\ \E b \in Builders(xfer.kind) : \E v \in BuilderArgs(xfer.kind, b) :
          xfer' = [xfer EXCEPT
                      !.value = with(xfer.value, xfer.kind, b, v),
                      !.set = [n \in (DOMAIN xfer.set) \cup {b.names} |->
                                  IF n = b.names THEN v ELSE xfer.set[n]]]
    /\ UNCHANGED <<size, tiles, sun_tiles, sun, settings, steps, initial, panicked, pos, nb>>

NextSettings == SettingsWith

SpecSettings == InitSettings /\ [][NextSettings]_vars

(***************************************************************************)
(* Contention harness: Map::step on grids one row taller than the scenario *)
(* grids, where two plants spread into the same Empty tile and a third     *)
(* plant next to that tile may be spreading as well.  Every spreading      *)
(* plant is kept alive by a mirrored Closed bridge to a plant of its own.  *)
(***************************************************************************)
ContentionSize == [w |-> GridW, h |-> GridH + 1]

\* the index of the neighbour of tile i in direction d on a grid of size sz, or -1
NbIndexIn(sz, i, d) ==
    LET r == PosNeighbor(from_index(i, sz), d, sz)
    IN  IF r.valid THEN to_index(r.pos, sz) ELSE -1

\* the directions in which tile i can be joined to a free tile by a mirrored pair
AnchorDirs(ts, sz, i, keep) ==
    {a \in Directions :
        LET q == NbIndexIn(sz, i, a)
        IN  /\ q # -1
            /\ q # i
            /\ q \notin keep
            /\ ts[q + 1].plant.tag = "Nothing"
            /\ NbIndexIn(sz, q, opposite(a)) = i}

\* grid ts with the plant at i joined to a new plant on a free neighbouring tile
Anchored(ts, sz, ms, i, keep) ==
    IF AnchorDirs(ts, sz, i, keep) = {} THEN ts
    ELSE LET a == MinById(AnchorDirs(ts, sz, i, keep))
             q == NbIndexIn(sz, i, a)
             link == Bridge("Branch", FALSE, R(2), "Closed")
             plant == ts[i + 1].plant.plant
         IN  [ts EXCEPT
                 ![i + 1] = PlantTile([plant EXCEPT !.bridges[a] = link], ms),
                 ![q + 1] = PlantTile(ProfiledPlant(LogBulk, "normal",
                                [NoBridges EXCEPT ![opposite(a)] = get_opposite(link)],
                                SpreadNothing), ms)]

Spreader(d, energy) ==
    ProfiledPlant(LogBulk, "normal", NoBridges, TryingOf(d, <<"toward", energy>>))

\* the tiles contested in the initial grids: one per column parity, below the top row
ContestedIndices(sz) ==
    {e \in 0..(sz.w * sz.h - 1) : from_index(e, sz).x < 2 /\ from_index(e, sz).y = 1}

NoThird == [at |-> -1, dir |-> "Right"]

\* the third plant: absent, or on a tile next to e and spreading in any direction
Thirds(sz, e) ==
    {NoThird} \cup
    {[at |-> NbIndexIn(sz, e, dx), dir |-> d] :
        dx \in {b \in Directions : NbIndexIn(sz, e, b) # -1}, d \in Directions}

ContentionGrid(sz, ms, e, n1, d1, n2, d2, third) ==
    LET empty == Map_new(sz, ms).tiles
        x == IF third.at \in {-1, e, n1, n2} THEN -1 ELSE third.at
        placed == [i \in 1..Len(empty) |->
                      CASE i - 1 = n1 -> PlantTile(Spreader(d1, 48), ms)
                        [] i - 1 = n2 -> PlantTile(Spreader(d2, 24), ms)
                        [] i - 1 = x /\ x # -1 -> PlantTile(Spreader(third.dir, 6), ms)
                        [] OTHER -> empty[i]]
        a1 == Anchored(placed, sz, ms, n1, {e})
        a2 == Anchored(a1, sz, ms, n2, {e})
    IN  IF x = -1 THEN a2 ELSE Anchored(a2, sz, ms, x, {e})

InitContention ==
    /\ size = ContentionSize
    /\ settings = DefaultSettings
    /\ \E e \in ContestedIndices(size) :
       \E n1 \in 0..(size.w * size.h - 1), d1 \in Directions :
       \E n2 \in 0..(size.w * size.h - 1), d2 \in Directions :
       \E third \in Thirds(size, e) :
          /\ n1 # e /\ n2 # e /\ n1 < n2
          /\ NbIndexIn(size, n1, d1) = e
          /\ NbIndexIn(size, n2, d2) = e
          /\ tiles = ContentionGrid(size, settings, e, n1, d1, n2, d2, third)
    /\ sun_tiles = Map_new(size, settings).sun_tiles
    /\ sun = Map_new(size, settings).sun
    /\ steps = 0
    /\ initial = tiles
    /\ panicked = FALSE
    /\ pos = TilePos(0, 0)
    /\ nb = NoNb
    /\ xfer = Idle

SpecContention == InitContention /\ [][Next]_vars

(***************************************************************************)
(* Linked plants: a plant P holding a bridge in one direction, the         *)
(* neighbour Q that direction leads to, holding the opposite bridge in the *)
(* facing slot, and the tile R that slot leads to.  Where the two          *)
(* directions undo each other R is P; elsewhere R is a third plant, which  *)
(* holds P's bridge and is led to Q by it as well.                         *)
(***************************************************************************)
BalanceEnergies == {R(12), R(36), R(60)}

BalancePlant(energy, bridges) ==
    Plant(LogBulk, bridges, TRUE, energy, R(72), R(6), SpreadNothing)

BalanceGrid(sz, ms, p, d, b, ep, eq, er) ==
    LET q == NbIndexIn(sz, p, d)
        r == NbIndexIn(sz, q, opposite(d))
    IN  [i \in 1..(sz.w * sz.h) |->
            CASE i - 1 = p ->
                    PlantTile(BalancePlant(ep, [NoBridges EXCEPT ![d] = b]), ms)
              [] i - 1 = q /\ q # p ->
                    PlantTile(BalancePlant(eq, [NoBridges EXCEPT ![opposite(d)] =
                                                    get_opposite(b)]), ms)
              [] i - 1 = r /\ r # p /\ r # q ->
                    PlantTile(BalancePlant(er, [NoBridges EXCEPT ![d] = b]), ms)
              [] OTHER -> Tile_new]

InitBalance ==
    /\ size = SimSize
    /\ settings = DefaultSettings
    /\ \E p \in 0..(size.w * size.h - 1), d \in Directions, mode \in TransferModes :
       \E ep \in BalanceEnergies, eq \in BalanceEnergies, er \in BalanceEnergies :
          LET q == NbIndexIn(size, p, d)
              r == IF q = -1 THEN -1 ELSE NbIndexIn(size, q, opposite(d))
          IN  /\ q # -1 /\ q # p
              /\ r # -1 /\ r # q
              /\ NbIndexIn(size, r, d) = q
              /\ r = p => er = ep
              /\ tiles = BalanceGrid(size, settings, p, d,
                                     Bridge("Log", FALSE, R(6), mode), ep, eq, er)
    /\ sun_tiles = Map_new(size, settings).sun_tiles
    /\ sun = Map_new(size, settings).sun
    /\ steps = 0
    /\ initial = tiles
    /\ panicked = FALSE
    /\ pos = TilePos(0, 0)
    /\ nb = NoNb
    /\ xfer = Idle

SpecBalance == InitBalance /\ [][Next]_vars

(***************************************************************************)
(* A hub: one plant away from the edges with bridges to the first k of its *)
(* six neighbours, each neighbour an alive plant holding the opposite      *)
(* bridge in the facing slot.                                              *)
(***************************************************************************)
HubSize == [w |-> GridW, h |-> GridH + 1]

HubPos == TilePos(1, 1)

\* energy, capacity and reserve of the hub, in whole units
HubProfiles ==
    {<<0, 72, 0>>, <<0, 72, 6>>, <<6, 72, 6>>, <<30, 72, 0>>, <<30, 72, 6>>, <<72, 72, 6>>,
     <<66, 72, 72>>, <<12, 30, 6>>, <<30, 30, 6>>}

HubBridgeCaps == {R(1), R(20)}

HubNeighborEnergies == {0, R(144)}

HubDirs(k) == {collection[j] : j \in 1..k}

HubGrid(sz, ms, profile, k, b, ne) ==
    LET hub == to_index(HubPos, sz)
    IN  [i \in 1..(sz.w * sz.h) |->
            IF i - 1 = hub
            THEN PlantTile(Plant(LogBulk,
                                 [d \in Directions |-> IF d \in HubDirs(k) THEN b ELSE None],
                                 TRUE, R(profile[1]), R(profile[2]), R(profile[3]),
                                 SpreadNothing), ms)
            ELSE IF \E d \in HubDirs(k) : NbIndexIn(sz, hub, d) = i - 1
                 THEN LET d == CHOOSE d \in HubDirs(k) : NbIndexIn(sz, hub, d) = i - 1
                      IN  PlantTile(Plant(LogBulk,
                                          [NoBridges EXCEPT ![opposite(d)] = get_opposite(b)],
                                          TRUE, ne, R(144), 0, SpreadNothing), ms)
                 ELSE Tile_new]

InitHub ==
    /\ size = HubSize
    /\ settings = DefaultSettings
    /\ \E profile \in HubProfiles, k \in 0..6, cap \in HubBridgeCaps,
          mode \in {"In", "Open"}, ne \in HubNeighborEnergies :
          tiles = HubGrid(size, settings, profile, k, Bridge("Log", FALSE, cap, mode), ne)
    /\ sun_tiles = Map_new(size, settings).sun_tiles
    /\ sun = Map_new(size, settings).sun
    /\ steps = 0
    /\ initial = tiles
    /\ panicked = FALSE
    /\ pos = TilePos(0, 0)
    /\ nb = NoNb
    /\ xfer = Idle

SpecHub == InitHub /\ [][Next]_vars

(***************************************************************************)
(* The application (application/): the winit callbacks of MainLoop acting  *)
(* on the optional window, the flags and the map.  `xfer` holds the        *)
(* application state: whether the window is present, the flags, the        *)
(* background mode, the tile data last written to the GPU buffers, the     *)
(* redraw request pending at the window, the Enter presses since the last  *)
(* step, and a record of the last callback.  A call of OptionalRenderedWindow::get or get_mut on an       *)
(* absent window panics.                                                   *)
(***************************************************************************)
\* Flags::new
Flags_new ==
    [map_changed |-> FALSE, iterate_simulation |-> FALSE,
     run_simulation |-> FALSE, redraw_simulation |-> FALSE]

NoUpload == [mode |-> "None", tiles |-> <<>>, sun |-> <<>>]

\* InstanceMode::new_collection / update_collection: the tile and sun data of the
\* map in the background mode, written to the instance buffers
Upload(mode) == [mode |-> mode, tiles |-> get_tile_data_background(mode), sun |-> get_sun_data]

NoCallback == [cb |-> "none", frame |-> FALSE, stepped |-> FALSE, requested |-> FALSE,
               uploaded |-> FALSE, enters |-> 0]

Callback(cb) == [NoCallback EXCEPT !.cb = cb]

\* the Enter presses counted since the last step, up to this bound
MaxEnters == 2

\* MainLoop::new
MainLoop_new ==
    [a |-> "app", phase |-> "new", window |-> FALSE, suspended |-> FALSE, exit |-> FALSE,
     flags |-> Flags_new, mode |-> "Light", uploaded |-> NoUpload,
     redraw_requested |-> FALSE, enters |-> 0, last |-> NoCallback]

InitApp ==
    /\ size = SimSize
    /\ settings = DefaultSettings
    /\ tiles = Map_new(size, settings).tiles
    /\ sun_tiles = Map_new(size, settings).sun_tiles
    /\ sun = Map_new(size, settings).sun
    /\ steps = 0
    /\ initial = tiles
    /\ panicked = FALSE
    /\ pos = TilePos(0, 0)
    /\ nb = NoNb
    /\ xfer = MainLoop_new

AppMapUnchanged == UNCHANGED <<size, settings, tiles, sun_tiles, sun, steps, initial, pos, nb>>

\* OptionalRenderedWindow::get / get_mut on an absent window, reached from `cb`
WindowPanic(cb) ==
    /\ panicked' = TRUE
    /\ xfer' = [xfer EXCEPT !.last = Callback(cb)]
    /\ AppMapUnchanged

AppRunning == xfer.a = "app" /\ ~panicked /\ xfer.phase = "active"

\* new_events(StartCause::Init): game_loop_init
new_events_init ==
    /\ xfer.a = "app" /\ ~panicked
    /\ xfer.phase = "new"
    /\ xfer' = [xfer EXCEPT !.phase = "init", !.last = Callback("init")]
    /\ UNCHANGED panicked
    /\ AppMapUnchanged

\* variant of should_step that steps on every frame
should_step_every_frame(forward_frame, forward_sim, flags) ==
    forward_frame \/ forward_sim

\* the condition of game_loop_iteration under which the map is stepped
should_step(forward_frame, forward_sim, flags) ==
    (forward_frame /\ flags.iterate_simulation) \/ forward_sim

\* variant of flags_after_step that leaves map_changed alone
flags_after_step_unmarked(flags) ==
    [flags EXCEPT !.iterate_simulation = FALSE, !.redraw_simulation = TRUE]

\* the three flag assignments of game_loop_iteration before self.map.step()
flags_after_step(flags) ==
    [flags EXCEPT !.iterate_simulation = FALSE, !.map_changed = TRUE,
                  !.redraw_simulation = TRUE]

\* new_events(Poll | ResumeTimeReached): game_loop_iteration.  get_new_time decides
\* forward_frame and, while the simulation runs, forward_sim; the camera decides
\* whether its transform changed.
game_loop_iteration(forward_frame, sim_due, camera_moved) ==
    /\ AppRunning
    /\ ~xfer.exit
    /\ LET forward_sim == xfer.flags.run_simulation /\ sim_due
           stepped == should_step(forward_frame, forward_sim, xfer.flags)
           mid == IF stepped THEN flags_after_step(xfer.flags) ELSE xfer.flags
           requested == forward_frame /\ mid.redraw_simulation
           flags == IF requested THEN [mid EXCEPT !.redraw_simulation = FALSE] ELSE mid
       IN  IF ~xfer.window
           THEN WindowPanic("iteration")
           ELSE /\ stepped => steps < MaxSteps
                /\ xfer' = [xfer EXCEPT
                       !.flags = flags,
                       !.redraw_requested = @ \/ (forward_frame /\ camera_moved) \/ requested,
                       !.enters = IF stepped THEN 0 ELSE @,
                       !.last = [cb |-> "iteration", frame |-> forward_frame,
                                 stepped |-> stepped, requested |-> requested,
                                 uploaded |-> FALSE, enters |-> xfer.enters]]
                /\ IF stepped
                   THEN LET new_sun == [sun EXCEPT
                                           !.position = Fract(sun.position + settings.sun_speed)]
                        IN  /\ tiles' = StepTiles(ForwardOrder(Len(tiles)))
                            /\ sun' = new_sun
                            /\ sun_tiles' = [i \in 1..size.w |-> SunTileAt(i - 1, size, new_sun)]
                            /\ steps' = steps + 1
                   ELSE UNCHANGED <<tiles, sun, sun_tiles, steps>>
                /\ UNCHANGED <<size, settings, initial, pos, nb, panicked>>

NewWindowOutcomes == {"ok", "no_window", "no_render_state"}

\* resumed: new_window.  A failure to create the window or its render state asks
\* the event loop to exit and leaves the window absent; otherwise the window is
\* stored and its graphics state is built from the map.
resumed(outcome) ==
    /\ xfer.a = "app" /\ ~panicked
    /\ xfer.phase = "init" \/ (xfer.phase = "active" /\ xfer.suspended)
    /\ xfer' = IF outcome = "ok"
               THEN [xfer EXCEPT !.phase = "active", !.suspended = FALSE, !.window = TRUE,
                                 !.uploaded = Upload(xfer.mode),
                                 !.last = [Callback("resumed") EXCEPT !.uploaded = TRUE]]
               ELSE [xfer EXCEPT !.phase = "active", !.suspended = FALSE, !.exit = TRUE,
                                 !.last = Callback("resumed")]
    /\ UNCHANGED panicked
    /\ AppMapUnchanged

\* suspended
suspended ==
    /\ AppRunning
    /\ ~xfer.suspended
    /\ xfer' = [xfer EXCEPT !.window = FALSE, !.suspended = TRUE, !.uploaded = NoUpload,
                            !.redraw_requested = FALSE, !.last = Callback("suspended")]
    /\ UNCHANGED panicked
    /\ AppMapUnchanged

\* exiting, delivered once the event loop was asked to exit
exiting ==
    /\ AppRunning
    /\ xfer.exit
    /\ xfer' = [xfer EXCEPT !.window = FALSE, !.phase = "done", !.uploaded = NoUpload,
                            !.redraw_requested = FALSE, !.last = Callback("exiting")]
    /\ UNCHANGED panicked
    /\ AppMapUnchanged

\* window_event(CloseRequested): main_window_close_request
main_window_close_request ==
    /\ AppRunning
    /\ xfer.window
    /\ xfer' = [xfer EXCEPT !.exit = TRUE, !.last = Callback("close")]
    /\ UNCHANGED panicked
    /\ AppMapUnchanged

\* window_event(RedrawRequested): main_window_redraw_requested, delivered after a
\* request or whenever the window system wants the window repainted
main_window_redraw_requested ==
    /\ AppRunning
    /\ xfer.window
    /\ xfer' = [xfer EXCEPT
           !.flags = [@ EXCEPT !.map_changed = FALSE],
           !.uploaded = IF xfer.flags.map_changed THEN Upload(xfer.mode) ELSE @,
           !.redraw_requested = FALSE,
           !.last = [Callback("redraw") EXCEPT !.uploaded = xfer.flags.map_changed]]
    /\ UNCHANGED panicked
    /\ AppMapUnchanged

\* window_event(Resized): main_window_resized
main_window_resized ==
    /\ AppRunning
    /\ xfer.window
    /\ xfer.last.cb # "resized"
    /\ xfer' = [xfer EXCEPT !.last = Callback("resized")]
    /\ UNCHANGED panicked
    /\ AppMapUnchanged

AppKeys == {"Enter", "Space", "Escape", "KeyH", "Digit1", "Digit2", "ArrowRight", "ArrowLeft"}

\* DataModeBackground::from_id, next and prev over the two modes
ModeAfter(key, mode) ==
    CASE key = "Digit1" -> "Light"
      [] key = "Digit2" -> "Transparency"
      [] key \in {"ArrowRight", "ArrowLeft"} -> IF mode = "Light" THEN "Transparency" ELSE "Light"
      [] OTHER -> mode

\* window_event(KeyboardInput): main_window_keyboard_input with a pressed key.
\* A first press runs main_window_keyboard_input_pressed and every press, repeats
\* included, runs main_window_keyboard_input_repeated.
main_window_keyboard_input(key, repeat) ==
    /\ AppRunning
    /\ xfer.window
    /\ LET first == ~repeat
           changes_mode == (first /\ key \in {"Digit1", "Digit2"})
                           \/ key \in {"ArrowRight", "ArrowLeft"}
           mode == IF changes_mode THEN ModeAfter(key, xfer.mode) ELSE xfer.mode
           update == first /\ key = "KeyH"
       IN  xfer' = [xfer EXCEPT
               !.exit = @ \/ (first /\ key = "Escape"),
               !.flags = [@ EXCEPT
                   !.run_simulation = IF first /\ key = "Space" THEN ~@ ELSE @,
                   !.iterate_simulation = @ \/ key = "Enter"],
               !.mode = mode,
               !.uploaded = IF changes_mode THEN Upload(mode) ELSE @,
               !.redraw_requested = @ \/ changes_mode \/ update,
               !.enters = IF key = "Enter" /\ @ < MaxEnters THEN @ + 1 ELSE @,
               !.last = [Callback(key) EXCEPT !.uploaded = changes_mode]]
    /\ xfer' # xfer
    /\ UNCHANGED panicked
    /\ AppMapUnchanged

NextApp ==
    \/ new_events_init
    \/ \E forward_frame \in BOOLEAN, sim_due \in BOOLEAN, camera_moved \in BOOLEAN :
          game_loop_iteration(forward_frame, sim_due, camera_moved)
    \/ \E outcome \in NewWindowOutcomes : resumed(outcome)
    \/ suspended
    \/ exiting
    \/ main_window_close_request
    \/ main_window_redraw_requested
    \/ main_window_resized
    \/ \E key \in AppKeys, repeat \in BOOLEAN : main_window_keyboard_input(key, repeat)

SpecApp == InitApp /\ [][NextApp]_vars

(***************************************************************************)
(* Bridge harness: a bridge drawn from the kinds, capacities and transfer   *)
(* modes, to which Bridge::get_opposite is applied once and then again to   *)
(* the result.                                                              *)
(***************************************************************************)
OppositeKinds == {"Log", "Branch"}

OppositeCaps == {0, R(1), R(6), R(20)}

InitOpposite ==
    /\ \E kind \in OppositeKinds, leaves \in BOOLEAN, cap \in OppositeCaps,
          mode \in TransferModes :
          LET b == Bridge(kind, leaves, cap, mode)
          IN  xfer = [a |-> "bridge", stage |-> "bridge", bridge |-> b, once |-> b, twice |-> b]
    /\ size = [w |-> 1, h |-> 1]
    /\ tiles = <<>>
    /\ sun_tiles = <<>>
    /\ sun = Idle
    /\ settings = Idle
    /\ steps = 0
    /\ initial = <<>>
    /\ panicked = FALSE
    /\ pos = TilePos(0, 0)
    /\ nb = NoNb

\* bridge.get_opposite()
OppositeOnce ==
    /\ xfer.a = "bridge"
    /\ xfer.stage = "bridge"
    /\ xfer' = [xfer EXCEPT !.stage = "opposite", !.once = get_opposite(xfer.bridge)]
    /\ UNCHANGED <<size, tiles, sun_tiles, sun, settings, steps, initial, panicked, pos, nb>>

\* bridge.get_opposite().get_opposite()
OppositeTwice ==
    /\ xfer.a = "bridge"
    /\ xfer.stage = "opposite"
    /\ xfer' = [xfer EXCEPT !.stage = "back", !.twice = get_opposite(xfer.once)]
    /\ UNCHANGED <<size, tiles, sun_tiles, sun, settings, steps, initial, panicked, pos, nb>>

NextOpposite ==
    \/ OppositeOnce
    \/ OppositeTwice

SpecOpposite == InitOpposite /\ [][NextOpposite]_vars

(***************************************************************************)
(* Vocabulary of the claims                                                *)
(***************************************************************************)
NTiles == Len(tiles)

IsOcc(t) == t.plant.tag = "Occupied"

PlantOf(t) == t.plant.plant

HasNoBridge(plant) == \A d \in Directions : ~IsSome(plant.bridges[d])

\* the index of the neighbour of tile i in direction d, or -1 outside the grid
NbIndex(i, d) ==
    LET r == PosNeighbor(from_index(i, size), d, size)
    IN  IF r.valid THEN to_index(r.pos, size) ELSE -1

\* a call of Map::step has completed between the two states
Stepped == steps' = steps + 1

\* in grid ts the plant at index n is Trying to spread and its direction leads to tile e
PointsAt(ts, n, e) ==
    /\ IsOcc(ts[n + 1])
    /\ PlantOf(ts[n + 1]).spread.tag = "Trying"
    /\ NbIndex(n, PlantOf(ts[n + 1]).spread.dir) = e

(***************************************************************************)
(* C1: Map::step computes every tile from the tile array and sun tiles as  *)
(* they were before the step: evaluating the tiles in reverse index order  *)
(* yields exactly the same new grid as forward index order.                *)
(***************************************************************************)
C1_OrderIndependent ==
    tiles # <<>> => StepTiles(ForwardOrder(NTiles)) = StepTiles(ReverseOrder(NTiles))

\* a grid with a Building tile next to a Waiting plant, which the next step changes
C1_Witness ==
    /\ tiles # <<>>
    /\ \E i \in 1..NTiles : tiles[i].plant.tag = "Building"
    /\ \E i \in 1..NTiles : IsOcc(tiles[i]) /\ PlantOf(tiles[i]).spread.tag = "Waiting"
    /\ StepTiles(ForwardOrder(NTiles)) # tiles

(***************************************************************************)
(* C2: spread handshake.  From a grid where an alive Occupied plant M is   *)
(* Trying with direction Right and energy e, the tile to M's right is      *)
(* Empty and no other plant is spreading into it, after exactly two steps  *)
(* either (a) the right tile is Occupied and its Left bridge and M's Right *)
(* bridge are a mirrored pair, or (b) M's energy has grown by exactly e.   *)
(* Stated for an M that is still Occupied after the two steps, whose       *)
(* refund fits under its capacity and that has no other energy term (no    *)
(* run cost, no light gain, no bridge that can carry energy).              *)
(***************************************************************************)
C2_Quiet(m) ==
    LET plant == PlantOf(initial[m + 1])
    IN  /\ get_energy_cost_run(plant, settings) = 0
        /\ plant.bulk.kind # "Leaf"
        /\ \A d \in Directions :
              IsSome(plant.bridges[d]) => plant.bridges[d].energy_transfer = "Closed"
        /\ plant.energy + plant.spread.energy <= plant.energy_capacity
        /\ IsOcc(tiles[m + 1])

C2_Start(m, r) ==
    /\ IsOcc(initial[m + 1])
    /\ PlantOf(initial[m + 1]).alive
    /\ PlantOf(initial[m + 1]).spread.tag = "Trying"
    /\ PlantOf(initial[m + 1]).spread.dir = "Right"
    /\ r # m
    /\ initial[r + 1].plant.tag = "Nothing"
    /\ \A n \in 0..(NTiles - 1) : (n # m) => ~PointsAt(initial, n, r)

C2_Connected(m, r) ==
    /\ IsOcc(tiles[r + 1])
    /\ IsOcc(tiles[m + 1])
    /\ IsSome(PlantOf(tiles[r + 1]).bridges["Left"])
    /\ PlantOf(tiles[m + 1]).bridges["Right"] = get_opposite(PlantOf(tiles[r + 1]).bridges["Left"])

C2_Refunded(m) ==
    /\ IsOcc(tiles[m + 1])
    /\ PlantOf(tiles[m + 1]).energy =
          PlantOf(initial[m + 1]).energy + PlantOf(initial[m + 1]).spread.energy

C2_Handshake ==
    (steps = 2 /\ ~panicked) =>
        \A m \in 0..(NTiles - 1) :
            (C2_Start(m, NbIndex(m, "Right")) /\ C2_Quiet(m)) =>
                (C2_Connected(m, NbIndex(m, "Right")) \/ C2_Refunded(m))

(***************************************************************************)
(* C3: mirrored-bridge invariant.  In every grid state, for every Occupied *)
(* tile T and direction d, T has a bridge in slot d if and only if the     *)
(* neighbour in direction d is Occupied and has in slot opposite(d) the    *)
(* get_opposite of T's bridge; the only exception is a neighbour that is   *)
(* dying (Occupied, marked not alive).                                     *)
(***************************************************************************)
C3_SlotMirrored(i, d) ==
    LET b == PlantOf(tiles[i + 1]).bridges[d]
        j == NbIndex(i, d)
        occupied == j # -1 /\ IsOcc(tiles[j + 1])
        dying == occupied /\ ~PlantOf(tiles[j + 1]).alive
        mirrored == /\ occupied
                    /\ IsSome(PlantOf(tiles[j + 1]).bridges[opposite(d)])
                    /\ PlantOf(tiles[j + 1]).bridges[opposite(d)] = get_opposite(b)
    IN  dying \/ (IsSome(b) <=> mirrored)

C3_MirroredBridges ==
    \A i \in 0..(NTiles - 1) :
        IsOcc(tiles[i + 1]) => \A d \in Directions : C3_SlotMirrored(i, d)

(***************************************************************************)
(* C4: death rule.  As claimed: an alive Occupied plant with no bridge,    *)
(* energy = energy_capacity = 10 and zero run cost has its tile Empty      *)
(* after the next single step.                                             *)
(***************************************************************************)
C4_Bridgeless(t) == IsOcc(t) /\ PlantOf(t).alive /\ HasNoBridge(PlantOf(t))

C4_EmptyAfterOneStep ==
    [][Stepped =>
        \A i \in 1..NTiles :
            (/\ C4_Bridgeless(tiles[i])
             /\ PlantOf(tiles[i]).energy = R(10)
             /\ PlantOf(tiles[i]).energy_capacity = R(10)
             /\ get_energy_cost_run(PlantOf(tiles[i]), settings) = 0)
                => tiles'[i].plant.tag = "Nothing"]_vars

(***************************************************************************)
(* C4 as amended: an alive Occupied plant with no bridge (and no Waiting   *)
(* spread, whose resolution could add one) is still Occupied but marked    *)
(* not alive after the next step, and a plant marked not alive is replaced *)
(* by Empty at the following step, whatever its energy.                    *)
(***************************************************************************)
C4_DeadThenEmpty ==
    [][Stepped =>
        \A i \in 1..NTiles :
            /\ (C4_Bridgeless(tiles[i]) /\ PlantOf(tiles[i]).spread.tag # "Waiting")
                  => (IsOcc(tiles'[i]) /\ ~PlantOf(tiles'[i]).alive)
            /\ (IsOcc(tiles[i]) /\ ~PlantOf(tiles[i]).alive)
                  => tiles'[i].plant = Nothing]_vars

\* the plant of the claim (no bridge, energy = capacity = 10, no run cost) two steps on
C4_Witness ==
    /\ steps = 2
    /\ \E i \in 1..NTiles :
          /\ C4_Bridgeless(initial[i])
          /\ PlantOf(initial[i]).energy = R(10)
          /\ PlantOf(initial[i]).energy_capacity = R(10)
          /\ get_energy_cost_run(PlantOf(initial[i]), settings) = 0
          /\ tiles[i].plant = Nothing

(***************************************************************************)
(* C5: zero-sum transfer.  For two alive Occupied neighbours with equal    *)
(* energy_reserve joined by one mirrored Open bridge, the transfer         *)
(* computed at one tile is exactly the negation of the transfer computed   *)
(* at the other, for all energies and capacities.                          *)
(***************************************************************************)
C5_ZeroSum ==
    (/\ xfer.a = "pair"
     /\ xfer.done
     /\ PlantOf(xfer.tiles[1]).bridges["Right"].energy_transfer = "Open"
     /\ ~IsSome(PlantOf(xfer.tiles[1]).bridges["Left"])
     /\ PlantOf(xfer.tiles[1]).energy_reserve = PlantOf(xfer.tiles[2]).energy_reserve)
        => (xfer.at_a.ok /\ xfer.at_b.ok /\ xfer.at_a.v = -xfer.at_b.v)

(***************************************************************************)
(* C6: energy cap.  After any sequence of steps every Occupied plant has   *)
(* energy <= energy_capacity, for plants advanced by Plant::forward        *)
(* (a refund included) and for plants newly built from a Building tile.    *)
(***************************************************************************)
C6_EnergyCap ==
    steps >= 1 =>
        \A i \in 1..NTiles :
            IsOcc(tiles[i]) => PlantOf(tiles[i]).energy <= PlantOf(tiles[i]).energy_capacity

\* a refund that the cap cut off, next to an offspring built with more energy than it holds
C6_Witness ==
    /\ steps = 2
    /\ \E i \in 1..NTiles :
          /\ IsOcc(initial[i]) /\ IsOcc(tiles[i])
          /\ PlantOf(initial[i]).spread.tag = "Trying"
          /\ PlantOf(initial[i]).energy + PlantOf(initial[i]).spread.energy
                > PlantOf(initial[i]).energy_capacity
          /\ PlantOf(tiles[i]).energy = PlantOf(tiles[i]).energy_capacity
    /\ \E j \in 1..NTiles :
          /\ initial[j].plant.tag = "Nothing"
          /\ IsOcc(tiles[j])
          /\ PlantOf(tiles[j]).energy = PlantOf(tiles[j]).energy_capacity

(***************************************************************************)
(* C7: totality.  Map::step never panics, for any grid state and any       *)
(* Settings value, plants with energy_capacity below energy_reserve        *)
(* included.                                                               *)
(***************************************************************************)
C7_NeverPanics == ~panicked

(***************************************************************************)
(* C8: spread priority.  An Empty tile with neighbours whose Occupied      *)
(* plant is Trying to spread into it becomes Building for exactly one of   *)
(* them, the one with the lowest direction id, holding an unmodified copy  *)
(* of its offspring template and its allocated energy; with no candidate   *)
(* the tile stays Empty.                                                   *)
(***************************************************************************)
C8_Spreaders(e) == {n \in 0..(NTiles - 1) : n # e /\ PointsAt(tiles, n, e)}

C8_Priority ==
    [][Stepped =>
        \A e \in 0..(NTiles - 1) :
            tiles[e + 1].plant.tag = "Nothing" =>
                IF C8_Spreaders(e) = {}
                THEN tiles'[e + 1].plant = Nothing
                ELSE \E n \in C8_Spreaders(e) :
                        LET spread == PlantOf(tiles[n + 1]).spread
                        IN  /\ \A o \in C8_Spreaders(e) :
                                  id(spread.dir) <= id(PlantOf(tiles[o + 1]).spread.dir)
                            /\ tiles'[e + 1].plant.tag = "Building"
                            /\ tiles'[e + 1].plant.plant = spread.plant
                            /\ tiles'[e + 1].plant.energy = spread.energy]_vars

(***************************************************************************)
(* C9: Building resolution, as claimed.  A Building{plant, energy, dir}    *)
(* tile never stays Building; it becomes Occupied iff the tile in          *)
(* direction dir is Occupied and alive and energy - build_cost >= 0, with  *)
(* build_cost = bulk build cost + build cost of the plant's bridge toward  *)
(* the mother; the new plant's energy is min(energy - build_cost,          *)
(* capacity); otherwise the tile becomes Empty.                            *)
(***************************************************************************)
C9_MotherAlive(i, dir) ==
    LET j == NbIndex(i, dir)
    IN  j # -1 /\ IsOcc(tiles[j + 1]) /\ PlantOf(tiles[j + 1]).alive

C9_Resolves(i, cost) ==
    LET st == tiles[i + 1].plant
        remaining == st.energy - cost
    IN  IF C9_MotherAlive(i, st.dir) /\ remaining >= 0
        THEN tiles'[i + 1].plant =
                Occupied([st.plant EXCEPT
                             !.energy = FMin(remaining, st.plant.energy_capacity)])
        ELSE tiles'[i + 1].plant = Nothing

C9_ClaimedCost(st) ==
    get_bulk_energy_cost_build(st.plant, settings)
        + (IF IsSome(st.plant.bridges[st.dir])
           THEN Bridge_get_energy_cost_build(st.plant.bridges[st.dir], settings)
           ELSE 0)

C9_BuildingAsClaimed ==
    [][Stepped =>
        \A i \in 0..(NTiles - 1) :
            tiles[i + 1].plant.tag = "Building" =>
                C9_Resolves(i, C9_ClaimedCost(tiles[i + 1].plant))]_vars

(***************************************************************************)
(* C9 as amended: the same resolution with build_cost = bulk build cost    *)
(* + half the build cost of every bridge of the proposed plant + a further *)
(* half of the build cost of its bridge in slot dir.                       *)
(***************************************************************************)
RECURSIVE C9_HalfBridges(_, _)
C9_HalfBridges(plant, ds) ==
    IF ds = {} THEN 0
    ELSE LET d == CHOOSE x \in ds : TRUE
         IN  (IF IsSome(plant.bridges[d])
              THEN Half(Bridge_get_energy_cost_build(plant.bridges[d], settings))
              ELSE 0) + C9_HalfBridges(plant, ds \ {d})

C9_AmendedCost(st) ==
    get_bulk_energy_cost_build(st.plant, settings)
        + C9_HalfBridges(st.plant, Directions)
        + C9_HalfBridges(st.plant, {st.dir})

C9_BuildingResolution ==
    [][Stepped =>
        \A i \in 0..(NTiles - 1) :
            tiles[i + 1].plant.tag = "Building" =>
                C9_Resolves(i, C9_AmendedCost(tiles[i + 1].plant))]_vars

\* an offspring with a bridge, built two steps on with energy left over below its capacity
C9_Witness ==
    /\ steps = 2
    /\ \E i \in 1..NTiles :
          /\ initial[i].plant.tag = "Nothing"
          /\ IsOcc(tiles[i])
          /\ PlantOf(tiles[i]).energy > 0
          /\ PlantOf(tiles[i]).energy < PlantOf(tiles[i]).energy_capacity
          /\ \E d \in Directions : IsSome(PlantOf(tiles[i]).bridges[d])

(***************************************************************************)
(* C10: neighbour validity and bounds.  For every in-grid position: right  *)
(* and left are always Valid; up_right and up_left are Invalid exactly in  *)
(* row 0; down_left and down_right are Invalid exactly in row height-1;    *)
(* every Valid result lies in the grid, its to_index is below width*height *)
(* and from_index(to_index(p)) = p.                                        *)
(***************************************************************************)
C10_ValidInBounds(r, sz) ==
    r.valid =>
        /\ InGrid(r.pos, sz)
        /\ to_index(r.pos, sz) >= 0
        /\ to_index(r.pos, sz) < sz.w * sz.h
        /\ from_index(to_index(r.pos, sz), sz) = r.pos

C10_NeighborBounds ==
    /\ InGrid(pos, size)
    /\ right(pos, size).valid
    /\ left(pos, size).valid
    /\ (~up_right(pos, size).valid) <=> (pos.y = 0)
    /\ (~up_left(pos, size).valid) <=> (pos.y = 0)
    /\ (~down_left(pos, size).valid) <=> (pos.y = size.h - 1)
    /\ (~down_right(pos, size).valid) <=> (pos.y = size.h - 1)
    /\ \A d \in Directions : C10_ValidInBounds(PosNeighbor(pos, d, size), size)
    /\ nb.dir \in Directions => C10_ValidInBounds(nb, size)

\* an up_right step that wrapped from the last (odd) column to column 0
C10_Witness ==
    /\ nb.dir = "UpRight"
    /\ nb.valid
    /\ nb.pos.x = 0
    /\ size.w > 1
    /\ pos = nb.pos

(***************************************************************************)
(* C11: wrap invariant.  For every width >= 1 and every in-grid position,  *)
(* applying the Right neighbour width times returns to the position, every *)
(* intermediate position stays in the same row, and Left is the inverse of *)
(* Right: left(right(p)) = p = right(left(p)).                             *)
(***************************************************************************)
RECURSIVE C11_RightTimes(_, _, _)
C11_RightTimes(p, n, sz) ==
    IF n = 0 THEN p ELSE C11_RightTimes(right(p, sz).pos, n - 1, sz)

C11_WrapInvariant ==
    /\ C11_RightTimes(pos, size.w, size) = pos
    /\ \A k \in 0..size.w :
          /\ C11_RightTimes(pos, k, size).y = pos.y
          /\ InGrid(C11_RightTimes(pos, k, size), size)
    /\ left(right(pos, size).pos, size) = Valid(pos)
    /\ right(left(pos, size).pos, size) = Valid(pos)
    /\ (nb.dir = "Right" /\ nb.valid) => left(pos, size).valid /\ right(pos, size).valid

\* a Right step that wrapped from the last column of a grid of width > 2 to column 0
C11_Witness ==
    /\ nb.dir = "Right"
    /\ nb.pos.x = 0
    /\ pos = nb.pos
    /\ size.w > 2
    /\ C11_RightTimes(pos, size.w - 1, size).x = size.w - 1

(***************************************************************************)
(* C12: light diffusion.  After a step the light of every tile whose       *)
(* upward neighbours are in the grid equals 0.5 * (L(up_right) +           *)
(* L(up_left)) with L(n) = n.light * n.transparency read from the grid     *)
(* before the step, whether or not any of the tiles holds a plant.         *)
(***************************************************************************)
C12_Attenuated(p) == FMul(tiles[to_index(p, size) + 1].light,
                          tiles[to_index(p, size) + 1].transparency)

C12_LightDiffusion ==
    [][Stepped =>
        \A i \in 0..(NTiles - 1) :
            LET p == from_index(i, size)
            IN  p.y >= 1 =>
                    tiles'[i + 1].light =
                        Half(C12_Attenuated(up_right(p, size).pos)
                             + C12_Attenuated(up_left(p, size).pos))]_vars

\* a lit tile below row 0 one of whose upward neighbours is lit but not fully transparent
C12_Witness ==
    /\ steps = MaxSteps
    /\ \E i \in 0..(NTiles - 1) :
          LET p == from_index(i, size)
          IN  /\ p.y >= 1
              /\ tiles[i + 1].light > 0
              /\ \E d \in {"UpRight", "UpLeft"} :
                    LET n == tiles[to_index(PosNeighbor(p, d, size).pos, size) + 1]
                    IN  n.light > 0 /\ n.transparency < Unit

(***************************************************************************)
(* C13: sun boundary.  For a tile in row 0 each off-grid upward neighbour  *)
(* contributes the sun tile of that neighbour's (wrapped) column, so the   *)
(* tile's light after a step is 0.5 * (sun[column of up_right] +           *)
(* sun[column of up_left]).                                                *)
(***************************************************************************)
C13_SunBoundary ==
    [][Stepped =>
        \A i \in 0..(NTiles - 1) :
            LET p == from_index(i, size)
            IN  p.y = 0 =>
                    tiles'[i + 1].light =
                        Half(sun_tiles[up_right(p, size).pos.x + 1]
                             + sun_tiles[up_left(p, size).pos.x + 1])]_vars

C15_Export(term) == IF term.v < 0 THEN -term.v ELSE 0

C15_Floor(plant, total, per) ==
    (/\ plant.alive
     /\ plant.energy_reserve <= plant.energy_capacity
     /\ plant.energy <= plant.energy_capacity
     /\ \A d \in Directions : plant.bridges[d].energy_capacity >= 0
     /\ total.ok)
        => LET above == FMax(0, plant.energy - plant.energy_reserve)
           IN  /\ C15_Export(total) <= above
               /\ \A d \in Directions : 6 * C15_Export(per[d]) <= above
               /\ SumSeq([i \in 1..Len(collection) |-> C15_Export(per[collection[i]])]) <= above
               /\ (plant.energy <= plant.energy_reserve) =>
                      \A d \in Directions : C15_Export(per[d]) = 0

C16_SunTileValue ==
    (xfer.a = "sun" /\ xfer.out # <<>>) =>
        /\ \A c \in 1..Len(xfer.out) :
              LET year == Year_get_intensity(xfer.intensity.year, c - 1, xfer.t)
                  day == Day_get_intensity(xfer.intensity.day, c - 1, xfer.t)
              IN  xfer.out[c] = FMul(year[1], day[1]) + FMul(year[2], day[2])
        /\ xfer.out_sized =>
              /\ Len(xfer.out) = size.w
              /\ YearDay_get_size(xfer.intensity) = size.w

\* the tiles of a grid of several columns, taken after the width was injected, at a
\* tick where both components of some column are non-zero
C16_Witness ==
    /\ xfer.a = "sun"
    /\ xfer.out_sized
    /\ size.w >= 3
    /\ Len(xfer.out) = size.w
    /\ xfer.t > 0
    /\ \E c \in 1..Len(xfer.out) :
          LET year == Year_get_intensity(xfer.intensity.year, c - 1, xfer.t)
              day == Day_get_intensity(xfer.intensity.day, c - 1, xfer.t)
          IN  FMul(year[1], day[1]) # 0 /\ FMul(year[2], day[2]) # 0 /\ year[1] # year[2]

(***************************************************************************)
(* C17: accessors.  Map::new yields width*height tiles that are all Empty; *)
(* after any number of steps get_tile_data_background returns exactly      *)
(* width*height values in row-major order (index = row*width + col), each  *)
(* the light or transparency field of that tile for the selected mode,     *)
(* un-normalised and cast to f32; get_sun_data returns exactly width       *)
(* values; neither accessor changes the map state.                         *)
(***************************************************************************)
C17_NewEmpty ==
    /\ Len(Map_new(size, settings).tiles) = size.w * size.h
    /\ \A i \in 1..Len(Map_new(size, settings).tiles) :
          Map_new(size, settings).tiles[i].plant = Nothing
    /\ steps = 0 => tiles = Map_new(size, settings).tiles

C17_Field(tile, mode) == IF mode = "Light" THEN tile.light ELSE tile.transparency

\* what a call of an accessor returned, against the map it was called on
C17_Read ==
    (xfer' # xfer) =>
        /\ UNCHANGED <<size, tiles, sun_tiles, sun, settings>>
        /\ xfer'.a = "tile_data" =>
              /\ Len(xfer'.out) = size.w * size.h
              /\ \A row \in 0..(size.h - 1), col \in 0..(size.w - 1) :
                    /\ to_index(TilePos(col, row), size) = row * size.w + col
                    /\ xfer'.out[row * size.w + col + 1].color_value
                          = as_f32(C17_Field(tiles[to_index(TilePos(col, row), size) + 1],
                                             xfer'.mode))
        /\ xfer'.a = "sun_data" =>
              /\ Len(xfer'.out) = size.w
              /\ \A col \in 1..size.w : xfer'.out[col].color_value = as_f32(sun_tiles[col])

C17_Accessors == C17_NewEmpty /\ [][C17_Read]_vars

\* the light of a stepped grid of several rows and columns was read, the values differ
\* between tiles and from the transparency, and the cast rounded one of them
C17_Witness ==
    /\ xfer.a = "tile_data"
    /\ xfer.mode = "Light"
    /\ steps >= 2
    /\ size.w >= 2
    /\ size.h >= 2
    /\ xfer.out = get_tile_data_background("Light")
    /\ \E i, j \in 1..Len(tiles) :
          /\ xfer.out[i] # xfer.out[j]
          /\ tiles[i].light # tiles[i].transparency
          /\ xfer.out[j].color_value # tiles[j].light

(***************************************************************************)
(* C18: settings round trip.  Each with_* builder replaces exactly the     *)
(* field it names with the given value and leaves every other field        *)
(* unchanged, so a Settings value built by any sequence of with_* calls    *)
(* reads back exactly the last value set for each field, with no           *)
(* normalisation.                                                          *)
(***************************************************************************)
C18_RoundTrip ==
    xfer.a = "settings" =>
        /\ \A n \in DOMAIN xfer.set :
              /\ n \in DOMAIN xfer.value
              /\ xfer.value[n] = xfer.set[n]
        /\ \A f \in (DOMAIN xfer.value) \ (DOMAIN xfer.set) :
              xfer.value[f] = Settings_new(xfer.kind)[f]

(***************************************************************************)
(* C19: spread targeting.  An Empty tile E accepts a spread from neighbour *)
(* N only if N is Occupied with spread state Trying whose direction, seen  *)
(* from N, points at E; a Trying plant never turns any tile other than the *)
(* one it points at into Building.                                         *)
(***************************************************************************)
\* the step turned the Empty tile e into a Building of the spread of the plant at n
C19_Accepted(e, n) ==
    /\ tiles[e + 1].plant.tag = "Nothing"
    /\ tiles'[e + 1].plant.tag = "Building"
    /\ IsOcc(tiles[n + 1])
    /\ PlantOf(tiles[n + 1]).spread.tag = "Trying"
    /\ \E d \in Directions : NbIndex(e, d) = n \/ NbIndex(n, d) = e
    /\ tiles'[e + 1].plant.plant = mutate(PlantOf(tiles[n + 1]).spread.plant, settings)
    /\ tiles'[e + 1].plant.energy = PlantOf(tiles[n + 1]).spread.energy
    /\ tiles'[e + 1].plant.dir = PlantOf(tiles[n + 1]).spread.dir

C19_SpreadTargeting ==
    [][Stepped =>
        \A e \in 0..(NTiles - 1) :
            /\ (tiles[e + 1].plant.tag = "Nothing" /\ tiles'[e + 1].plant.tag = "Building") =>
                  \E n \in 0..(NTiles - 1) : C19_Accepted(e, n) /\ PointsAt(tiles, n, e)
            /\ \A n \in 0..(NTiles - 1) :
                  (C19_Accepted(e, n)
                      /\ \A o \in 0..(NTiles - 1) : C19_Accepted(e, o) => o = n) =>
                        PointsAt(tiles, n, e)]_vars

(***************************************************************************)
(* C20: waiting resolution.  When a plant in Waiting{d, e} is forwarded,   *)
(* its spread state becomes Nothing and either (i) the neighbour in        *)
(* direction d is Building with build_dir = opposite(d) and the proposed   *)
(* offspring has a bridge toward this plant, in which case the             *)
(* get_opposite of that bridge is placed in this plant's slot d and e is   *)
(* not refunded, or (ii) otherwise exactly e is added to this plant's      *)
(* energy and no bridge is added.                                          *)
(***************************************************************************)
C20_Waiting(m) ==
    /\ IsOcc(tiles[m + 1])
    /\ PlantOf(tiles[m + 1]).alive
    /\ PlantOf(tiles[m + 1]).spread.tag = "Waiting"

\* case (i): the tile aimed at is Building toward this plant with a bridge toward it
C20_Built(m) ==
    LET d == PlantOf(tiles[m + 1]).spread.dir
        t == NbIndex(m, d)
    IN  /\ t # -1
        /\ tiles[t + 1].plant.tag = "Building"
        /\ tiles[t + 1].plant.dir = opposite(d)
        /\ IsSome(tiles[t + 1].plant.plant.bridges[opposite(d)])

\* the energy of the forwarded plant when `returned` comes back from the spread
C20_Energy(m, returned) ==
    LET self == PlantOf(tiles[m + 1])
        neighbors == TileNeighbors_new(tiles, sun_tiles, size, from_index(m, size))
    IN  FMin(self.energy + returned
                + get_energy_gain(self, settings, tiles[m + 1])
                + get_energy_transfer(self, neighbors).v
                - get_energy_cost_run(self, settings),
             self.energy_capacity)

C20_Resolved(m) ==
    LET self == PlantOf(tiles[m + 1])
        d == self.spread.dir
        new == PlantOf(tiles'[m + 1])
    IN  /\ IsOcc(tiles'[m + 1])
        /\ new.spread = SpreadNothing
        /\ IF C20_Built(m)
           THEN /\ new.bridges[d] =
                      get_opposite(tiles[NbIndex(m, d) + 1].plant.plant.bridges[opposite(d)])
                /\ new.energy = C20_Energy(m, 0)
           ELSE /\ \A b \in Directions : IsSome(new.bridges[b]) => new.bridges[b] = self.bridges[b]
                /\ new.energy = C20_Energy(m, self.spread.energy)

C20_WaitingResolution ==
    [][Stepped => \A m \in 0..(NTiles - 1) : C20_Waiting(m) => C20_Resolved(m)]_vars

(***************************************************************************)
(* C21: contention.  When two or more alive plants are Trying to spread    *)
(* into the same Empty tile in the same tick, every spreader that loses    *)
(* the priority selection has its full allocated energy added back to its  *)
(* own energy when its Waiting state resolves two steps later, and gains   *)
(* no bridge toward the contested tile.                                    *)
(***************************************************************************)
\* the alive plants of the initial grid that are Trying to spread into tile e
C21_Contenders(e) ==
    {n \in 0..(NTiles - 1) : n # e /\ PointsAt(initial, n, e) /\ PlantOf(initial[n + 1]).alive}

\* the contenders of e other than the one with the lowest direction id
C21_Losers(e) ==
    {n \in C21_Contenders(e) :
        \E o \in C21_Contenders(e) :
            id(PlantOf(initial[o + 1]).spread.dir) < id(PlantOf(initial[n + 1]).spread.dir)}

C21_Refunded(n) ==
    LET self == PlantOf(tiles[n + 1])
        new == PlantOf(tiles'[n + 1])
    IN  /\ IsOcc(tiles'[n + 1])
        /\ new.energy = C20_Energy(n, PlantOf(initial[n + 1]).spread.energy)
        /\ new.bridges[self.spread.dir] = None

C21_Contention ==
    [][(steps = 1 /\ Stepped) =>
        \A e \in 0..(NTiles - 1) :
            (initial[e + 1].plant.tag = "Nothing" /\ Cardinality(C21_Contenders(e)) >= 2) =>
                \A n \in C21_Losers(e) : C20_Waiting(n) => C21_Refunded(n)]_vars

(***************************************************************************)
(* C22: no energy duplication in a handshake.  For every offspring         *)
(* template, a spreading plant receives the refund of its allocated energy *)
(* only in a step in which the target tile does not become Occupied by its *)
(* offspring; it never happens that the offspring is built from the        *)
(* allocated energy and the mother is also refunded that energy.           *)
(***************************************************************************)
\* the plant at m is the only plant of the initial grid that is spreading
C22_Mother(m) ==
    /\ IsOcc(initial[m + 1])
    /\ PlantOf(initial[m + 1]).alive
    /\ PlantOf(initial[m + 1]).spread.tag = "Trying"
    /\ \A n \in 0..(NTiles - 1) :
          (n # m /\ IsOcc(initial[n + 1])) => PlantOf(initial[n + 1]).spread.tag = "Nothing"

\* the step adds the whole allocated energy back to the plant at m
C22_Refunded(m) ==
    /\ C20_Waiting(m)
    /\ IsOcc(tiles'[m + 1])
    /\ PlantOf(tiles'[m + 1]).energy = C20_Energy(m, PlantOf(initial[m + 1]).spread.energy)
    /\ C20_Energy(m, PlantOf(initial[m + 1]).spread.energy)
          = C20_Energy(m, 0) + PlantOf(initial[m + 1]).spread.energy

\* the step builds the offspring of the plant at m on tile x from the allocated energy
C22_Built(m, x) ==
    LET spread == PlantOf(initial[m + 1]).spread
    IN  /\ tiles[x + 1].plant = Building(mutate(spread.plant, settings), spread.energy, spread.dir)
        /\ IsOcc(tiles'[x + 1])
        /\ PlantOf(tiles'[x + 1]).bulk = spread.plant.bulk
        /\ PlantOf(tiles'[x + 1]).energy > 0

C22_NoDuplication ==
    [][(steps = 1 /\ Stepped) =>
        \A m \in 0..(NTiles - 1) :
            (C22_Mother(m) /\ C22_Refunded(m)) =>
                \A x \in 0..(NTiles - 1) : ~C22_Built(m, x)]_vars

(***************************************************************************)
(* C23: neighbour symmetry.  For every in-grid position p and direction d  *)
(* with opposite pairs Right/Left, UpRight/DownLeft, UpLeft/DownRight, if  *)
(* the neighbour of p in direction d is a Valid position q, then the       *)
(* neighbour of q in direction opposite(d) is Valid and equals p (on grids *)
(* of even width, including across the x wrap).                            *)
(***************************************************************************)
C23_Back(p, d, sz) == PosNeighbor(PosNeighbor(p, d, sz).pos, opposite(d), sz)

C23_NeighbourSymmetry ==
    (size.w % 2 = 0) =>
        \A d \in Directions :
            PosNeighbor(pos, d, size).valid =>
                /\ C23_Back(pos, d, size).valid
                /\ C23_Back(pos, d, size).pos = pos

(***************************************************************************)
(* C24: alive rule.  After Plant::forward the plant's alive flag is true   *)
(* if and only if its new energy is >= 0 and at least one bridge of its    *)
(* resulting bridge set (after pruning and spread resolution) has          *)
(* exiting = false; a plant whose alive flag is false is replaced by Empty *)
(* at the next step without any further update.                            *)
(***************************************************************************)
C24_Entering(plant) == \E d \in Directions : IsSome(plant.bridges[d]) /\ ~plant.bridges[d].exiting

C24_AliveRule ==
    [][Stepped =>
        \A i \in 1..NTiles :
            /\ (IsOcc(tiles[i]) /\ PlantOf(tiles[i]).alive) =>
                  /\ IsOcc(tiles'[i])
                  /\ PlantOf(tiles'[i]).alive
                        <=> (PlantOf(tiles'[i]).energy >= 0 /\ C24_Entering(PlantOf(tiles'[i])))
            /\ (IsOcc(tiles[i]) /\ ~PlantOf(tiles[i]).alive) => tiles'[i].plant = Nothing]_vars

\* after two steps: a plant that stayed alive, a plant with energy >= 0 that was marked
\* not alive for want of a non-exiting bridge, and a tile emptied of its dead plant
C24_Witness ==
    /\ steps = 2
    /\ \E i, j, k \in 1..NTiles :
          /\ IsOcc(tiles[i]) /\ PlantOf(tiles[i]).alive /\ PlantOf(tiles[i]).energy > 0
          /\ IsOcc(tiles[j]) /\ ~PlantOf(tiles[j]).alive /\ PlantOf(tiles[j]).energy >= 0
          /\ ~C24_Entering(PlantOf(tiles[j]))
          /\ IsOcc(initial[k]) /\ tiles[k].plant = Nothing

(***************************************************************************)
(* C25: death cascade.  If plant P's only non-exiting bridge leads to      *)
(* neighbour Q, and in the snapshot read by some step Q is not an alive    *)
(* Occupied plant, then after that step P has dropped the bridge and is    *)
(* marked not alive, and after the following step P's tile is Empty,       *)
(* regardless of P's energy.                                               *)
(***************************************************************************)
\* in grid ts the tile in direction d of tile i holds an alive plant
C25_AliveAt(ts, i, d) ==
    /\ NbIndex(i, d) # -1
    /\ IsOcc(ts[NbIndex(i, d) + 1])
    /\ PlantOf(ts[NbIndex(i, d) + 1]).alive

\* in grid ts the alive plant at i has its only non-exiting bridge in slot d
C25_OnlyLink(ts, i, d) ==
    /\ IsOcc(ts[i + 1])
    /\ PlantOf(ts[i + 1]).alive
    /\ \A b \in Directions :
          (IsSome(PlantOf(ts[i + 1]).bridges[b]) /\ ~PlantOf(ts[i + 1]).bridges[b].exiting)
              <=> b = d

C25_DeathCascade ==
    [][Stepped =>
        \A i \in 0..(NTiles - 1) :
            /\ \A d \in Directions :
                  (C25_OnlyLink(tiles, i, d) /\ ~C25_AliveAt(tiles, i, d)) =>
                      /\ IsOcc(tiles'[i + 1])
                      /\ PlantOf(tiles'[i + 1]).bridges[d] = None
                      /\ ~PlantOf(tiles'[i + 1]).alive
            /\ (IsOcc(tiles[i + 1]) /\ ~PlantOf(tiles[i + 1]).alive
                    /\ ~C24_Entering(PlantOf(tiles[i + 1]))) =>
                  tiles'[i + 1].plant = Nothing]_vars

\* a plant that started alive with energy and one non-exiting bridge to an alive plant
\* without a non-exiting bridge of its own: three steps later its tile is Empty
C25_Witness ==
    /\ steps = 3
    /\ \E i \in 0..(NTiles - 1), d \in Directions :
          /\ C25_OnlyLink(initial, i, d)
          /\ C25_AliveAt(initial, i, d)
          /\ ~C24_Entering(PlantOf(initial[NbIndex(i, d) + 1]))
          /\ PlantOf(initial[i + 1]).energy > 0
          /\ PlantOf(initial[i + 1]).energy = PlantOf(initial[i + 1]).energy_capacity
          /\ tiles[i + 1].plant = Nothing
          /\ tiles[NbIndex(i, d) + 1].plant = Nothing

(***************************************************************************)
(* C26: extinction of rooted plants.  In any grid whose bridges are        *)
(* mirrored, whose mother-to-child relation (exiting end to non-exiting    *)
(* end) contains no cycle, and in which no spread is pending, every plant  *)
(* is eventually removed: after finitely many steps all tiles are Empty,   *)
(* whatever the plants' energy, capacity and light.                        *)
(***************************************************************************)
\* every bridge of grid ts has the opposite bridge in the facing slot of its neighbour
C26_Mirrored(ts) ==
    \A i \in 0..(NTiles - 1), d \in Directions :
        (IsOcc(ts[i + 1]) /\ IsSome(PlantOf(ts[i + 1]).bridges[d])) =>
            /\ NbIndex(i, d) # -1
            /\ IsOcc(ts[NbIndex(i, d) + 1])
            /\ PlantOf(ts[NbIndex(i, d) + 1]).bridges[opposite(d)]
                   = get_opposite(PlantOf(ts[i + 1]).bridges[d])

\* the plants of S that hold the exiting end of a bridge whose other end is at tile i
C26_Mothers(ts, i, S) ==
    {j \in S : \E d \in Directions :
        /\ IsSome(PlantOf(ts[i + 1]).bridges[d])
        /\ ~PlantOf(ts[i + 1]).bridges[d].exiting
        /\ NbIndex(i, d) = j}

\* what is left of S after taking away, again and again, the plants without a mother
RECURSIVE C26_Strip(_, _)
C26_Strip(ts, S) ==
    LET roots == {i \in S : C26_Mothers(ts, i, S) = {}}
    IN  IF roots = {} THEN S ELSE C26_Strip(ts, S \ roots)

C26_Plants(ts) == {i \in 0..(NTiles - 1) : IsOcc(ts[i + 1])}

C26_Rooted(ts) ==
    /\ C26_Mirrored(ts)
    /\ C26_Strip(ts, C26_Plants(ts)) = {}
    /\ \A i \in C26_Plants(ts) : PlantOf(ts[i + 1]).spread = SpreadNothing

C26_AllEmpty == \A i \in 1..Len(tiles) : tiles[i].plant = Nothing

C26_Extinction == (tiles # <<>> /\ steps = 0 /\ C26_Rooted(tiles)) ~> C26_AllEmpty

(***************************************************************************)
(* C27: pruning.  Plant::forward drops every bridge whose neighbour in the *)
(* previous snapshot is not an Occupied plant with alive = true (Empty,    *)
(* Building, dead, sun boundary or floor), and leaves every bridge toward  *)
(* an alive Occupied neighbour unchanged in kind, capacity, exiting flag   *)
(* and transfer mode.                                                      *)
(***************************************************************************)
\* the neighbours that are not an alive Occupied plant: floor, sun boundary, Empty
\* tile, Building tile, dead plant
C27_NotAlive ==
    {NeighborEmpty, NeighborSunTile(Unit), NeighborTile(Tile_new),
     NeighborTile(Tile(Building(Template("Right", "toward"), R(6), "Right"), Unit, 0)),
     NeighborTile(PlantTile(Plant(LogBulk, NoBridges, FALSE, R(12), R(72), R(6),
                                  SpreadNothing), DefaultSettings))}

C27_AliveNeighbor ==
    NeighborTile(PlantTile(ProfiledPlant(LogBulk, "normal", NoBridges, SpreadNothing),
                           DefaultSettings))

C27_Full ==
    [d \in Directions |->
        IF d \in {"Right", "UpLeft", "DownLeft"}
        THEN Bridge("Log", FALSE, R(6), "Open") ELSE Bridge("Branch", TRUE, R(2), "Out")]

\* remove_bridges on six bridges with one neighbour of each kind that is not alive
C27_Kinds ==
    \A n \in C27_NotAlive, d \in Directions :
        remove_bridges(C27_Full, [b \in Directions |-> IF b = d THEN n ELSE C27_AliveNeighbor])
            = [C27_Full EXCEPT ![d] = None]

C27_Pruning ==
    [][Stepped =>
        /\ C27_Kinds
        /\ \A i \in 0..(NTiles - 1), d \in Directions :
              (IsOcc(tiles[i + 1]) /\ PlantOf(tiles[i + 1]).alive
                      /\ IsSome(PlantOf(tiles[i + 1]).bridges[d])) =>
                  /\ IsOcc(tiles'[i + 1])
                  /\ PlantOf(tiles'[i + 1]).bridges[d] =
                         IF C25_AliveAt(tiles, i, d)
                         THEN PlantOf(tiles[i + 1]).bridges[d]
                         ELSE None]_vars

\* after two steps a plant still stands that has lost the bridge it started with,
\* next to the tile of the neighbour that bridge led to, and holds another bridge
C27_Witness ==
    /\ steps = 2
    /\ \E i \in 0..(NTiles - 1), d \in Directions :
          /\ IsOcc(initial[i + 1])
          /\ IsSome(PlantOf(initial[i + 1]).bridges[d])
          /\ IsOcc(tiles[i + 1])
          /\ PlantOf(tiles[i + 1]).bridges[d] = None
          /\ \E b \in Directions : IsSome(PlantOf(tiles[i + 1]).bridges[b])

(***************************************************************************)
(* C28: grid-wide transfer balance.  For any two alive Occupied neighbours *)
(* joined by a mirrored bridge pair of any transfer mode (Open/Open,       *)
(* Out/In, In/Out, Closed/Closed) and any reserves with reserve <=         *)
(* capacity, the flow computed at one end is the negation of the flow      *)
(* computed at the other end, so in a grid satisfying the mirrored-bridge  *)
(* invariant the transfer terms of all plants sum to zero in every step.   *)
(***************************************************************************)
C28_Neighbors(i) == TileNeighbors_new(tiles, sun_tiles, size, from_index(i, size))

C28_Alive(i) == IsOcc(tiles[i + 1]) /\ PlantOf(tiles[i + 1]).alive

\* the flow the next step computes at tile i through slot d
C28_Term(i, d) == TransferDir(PlantOf(tiles[i + 1]), C28_Neighbors(i), d)

\* the transfer the next step adds to the plant at tile i
C28_Transfer(i) ==
    IF C28_Alive(i)
    THEN get_energy_transfer(PlantOf(tiles[i + 1]), C28_Neighbors(i))
    ELSE [ok |-> TRUE, v |-> 0]

\* tiles i and its neighbour in direction d are alive plants, each the other's neighbour
C28_Joined(i, d) ==
    /\ C28_Alive(i)
    /\ IsSome(PlantOf(tiles[i + 1]).bridges[d])
    /\ NbIndex(i, d) # -1
    /\ C28_Alive(NbIndex(i, d))
    /\ NbIndex(NbIndex(i, d), opposite(d)) = i

C28_Reserves ==
    \A i \in 0..(NTiles - 1) :
        IsOcc(tiles[i + 1]) =>
            PlantOf(tiles[i + 1]).energy_reserve <= PlantOf(tiles[i + 1]).energy_capacity

C28_PairBalance ==
    \A i \in 0..(NTiles - 1), d \in Directions :
        C28_Joined(i, d) =>
            /\ C28_Term(i, d).ok
            /\ C28_Term(NbIndex(i, d), opposite(d)).ok
            /\ C28_Term(i, d).v = -C28_Term(NbIndex(i, d), opposite(d)).v

C28_GridBalance == SumSeq([i \in 1..NTiles |-> C28_Transfer(i - 1).v]) = 0

C28_TransferBalance ==
    (C26_Mirrored(tiles) /\ C28_Reserves) => (C28_PairBalance /\ C28_GridBalance)

(***************************************************************************)
(* C29: transfer gating.  The flow into a tile through one bridge is 0     *)
(* when the bridge mode is Closed, never positive when the mode is Out,    *)
(* never negative when the mode is In, its magnitude never exceeds the     *)
(* bridge's energy_capacity, and a bridge whose neighbour is not an alive  *)
(* Occupied plant contributes 0.                                           *)
(***************************************************************************)
C29_Bridge(i, d) == PlantOf(tiles[i + 1]).bridges[d]

C29_Gated(i, d) ==
    LET b == C29_Bridge(i, d)
        t == C28_Term(i, d)
    IN  /\ b.energy_transfer = "Closed" => (t.ok /\ t.v = 0)
        /\ (NbIndex(i, d) = -1 \/ ~C28_Alive(NbIndex(i, d))) => (t.ok /\ t.v = 0)
        /\ t.ok =>
              /\ b.energy_transfer = "Out" => t.v <= 0
              /\ b.energy_transfer = "In" => t.v >= 0
              /\ FAbs(t.v) <= b.energy_capacity

C29_TransferGating ==
    \A i \in 0..(NTiles - 1), d \in Directions :
        (C28_Alive(i) /\ IsSome(C29_Bridge(i, d))) => C29_Gated(i, d)

\* one plant gives a full bridge capacity through an Out bridge while another takes
\* a full bridge capacity through an In bridge
C29_Witness ==
    /\ \E i \in 0..(NTiles - 1), d \in Directions :
          /\ C28_Alive(i)
          /\ C29_Bridge(i, d).energy_transfer = "Out"
          /\ C28_Term(i, d).ok
          /\ C28_Term(i, d).v = -C29_Bridge(i, d).energy_capacity
    /\ \E i \in 0..(NTiles - 1), d \in Directions :
          /\ C28_Alive(i)
          /\ C29_Bridge(i, d).energy_transfer = "In"
          /\ C28_Term(i, d).ok
          /\ C28_Term(i, d).v = C29_Bridge(i, d).energy_capacity

(***************************************************************************)
(* C30: transfers never overflow storage.  For an alive Occupied plant     *)
(* with energy <= energy_capacity and energy_reserve <= energy_capacity,   *)
(* energy + transfer_energy <= energy_capacity even when all six bridges   *)
(* deliver their maximum, so the min(energy_capacity, ...) cap never       *)
(* discards energy that a neighbour has given up through a transfer alone. *)
(***************************************************************************)
C30_Within(i) ==
    /\ C28_Alive(i)
    /\ PlantOf(tiles[i + 1]).energy <= PlantOf(tiles[i + 1]).energy_capacity
    /\ PlantOf(tiles[i + 1]).energy_reserve <= PlantOf(tiles[i + 1]).energy_capacity

C30_NoOverflow ==
    \A i \in 0..(NTiles - 1) :
        (C30_Within(i) /\ C28_Transfer(i).ok) =>
            PlantOf(tiles[i + 1]).energy + C28_Transfer(i).v
                <= PlantOf(tiles[i + 1]).energy_capacity

\* a plant below its capacity whose six bridges each deliver the room of one
\* neighbour: the transfer fills the plant exactly to its capacity
C30_Witness ==
    \E i \in 0..(NTiles - 1) :
        /\ C30_Within(i)
        /\ PlantOf(tiles[i + 1]).energy < PlantOf(tiles[i + 1]).energy_capacity
        /\ \A d \in Directions :
              /\ C28_Term(i, d).ok
              /\ C28_Term(i, d).v > 0
              /\ C28_Term(i, d).v = Room(PlantOf(tiles[i + 1]))
        /\ PlantOf(tiles[i + 1]).energy + C28_Transfer(i).v
               = PlantOf(tiles[i + 1]).energy_capacity

(***************************************************************************)
(* C31: upkeep.  The cost_energy charged to a plant in a step is its bulk  *)
(* run cost plus exactly half the run cost of each bridge in the bridge    *)
(* set that results from that step's pruning and spread resolution; a      *)
(* bridge dropped in the step is not charged and a bridge spliced in the   *)
(* step is.                                                                *)
(***************************************************************************)
\* the Waiting plant at tile i had a bridge spliced in by the step
C31_Spliced(i) ==
    LET plant == PlantOf(tiles[i + 1])
    IN  /\ plant.spread.tag = "Waiting"
        /\ NbIndex(i, plant.spread.dir) # -1
        /\ tiles[NbIndex(i, plant.spread.dir) + 1].plant.tag = "Building"
        /\ IsSome(PlantOf(tiles'[i + 1]).bridges[plant.spread.dir])

\* the energy the plant at tile i brings into the step: its own, and the refund of a
\* spread that was not built
C31_EnergyIn(i) ==
    LET plant == PlantOf(tiles[i + 1])
    IN  IF plant.spread.tag = "Waiting" /\ ~C31_Spliced(i)
        THEN plant.energy + plant.spread.energy
        ELSE plant.energy

\* the run cost of the plant at tile i with the bridge set it has after the step
C31_CostOfResult(i) ==
    get_energy_cost_run([PlantOf(tiles[i + 1]) EXCEPT !.bridges = PlantOf(tiles'[i + 1]).bridges],
                        settings)

C31_Upkeep ==
    [][Stepped =>
        \A i \in 0..(NTiles - 1) :
            (C28_Alive(i) /\ IsOcc(tiles'[i + 1])) =>
                PlantOf(tiles'[i + 1]).energy =
                    FMin(C31_EnergyIn(i)
                             + get_energy_gain(PlantOf(tiles[i + 1]), settings, tiles[i + 1])
                             + C28_Transfer(i).v
                             - C31_CostOfResult(i),
                         PlantOf(tiles[i + 1]).energy_capacity)]_vars

(***************************************************************************)
(* C32: sun before light within a tick.  In one call to step() the sun     *)
(* tiles for the tick are derived from the intensity model before light    *)
(* diffusion reads them, so the light of a row-0 tile after a step         *)
(* reflects the sun intensity of that same tick and not the sun tiles left *)
(* over from the previous step (or the zero-valued tiles set by Map::new). *)
(***************************************************************************)
\* the light forward_light gives tile i when its neighbours are looked up in the
\* tiles before the step and the sun tiles sn
C32_LightUnder(i, sn) ==
    forward_light(tiles[i + 1], settings,
                  TileNeighbors_new(tiles, sn, size, from_index(i, size)))

C32_SunBeforeLight ==
    [][Stepped =>
        \A i \in 0..(NTiles - 1) :
            from_index(i, size).y = 0 =>
                tiles'[i + 1].light = C32_LightUnder(i, sun_tiles')]_vars

(***************************************************************************)
(* C33: top-down propagation.  With every sun tile fixed at a constant k   *)
(* and all transparency 1, starting from the initial grid, every tile's    *)
(* light eventually equals k and then stays k, and light arrives row by    *)
(* row from the top: the light of row r after a step depends only on row   *)
(* r-1 (or the sun tiles for r = 0) before the step, so row r never        *)
(* reaches k before row r-1 has.                                           *)
(***************************************************************************)
C33_Row(r) == {i \in 0..(NTiles - 1) : from_index(i, size).y = r}

C33_RowLit(r) == \A i \in C33_Row(r) : tiles[i + 1].light = sun_tiles[1]

C33_AllLit == \A r \in 0..(size.h - 1) : C33_RowLit(r)

C33_RowOrder == \A r \in 1..(size.h - 1) : C33_RowLit(r) => C33_RowLit(r - 1)

\* what tile i receives from its upper neighbour at position q: the light of the tile
\* of the row above, or the sun tile of the column when q is off the grid
C33_Above(i, q) ==
    IF from_index(i, size).y = 0
    THEN sun_tiles[q.x + 1]
    ELSE IF q.y = from_index(i, size).y - 1
         THEN FMul(tiles[to_index(q, size) + 1].light, tiles[to_index(q, size) + 1].transparency)
         ELSE -1

C33_FromAbove ==
    \A i \in 0..(NTiles - 1) :
        tiles'[i + 1].light =
            Half(C33_Above(i, up_right(from_index(i, size), size).pos)
                 + C33_Above(i, up_left(from_index(i, size), size).pos))

C34_FromNew == tiles # <<>> /\ initial = Map_new(size, settings).tiles

C34_EmptyClosed ==
    C34_FromNew =>
        \A i \in 1..NTiles :
            /\ tiles[i].plant = Nothing
            /\ steps >= 1 => tiles[i].transparency = settings.transparency.base

\* the empty grid after three steps under a base transparency other than the 1.0 of
\* Tile::new, with light on it
C34_Witness ==
    /\ C34_FromNew
    /\ steps = 3
    /\ settings.transparency.base # Unit
    /\ \E i \in 1..NTiles : tiles[i].light > 0


(***************************************************************************)
(* Claims about the application                                            *)
(***************************************************************************)
\* C35: in every order of the winit callbacks the main loop never calls
\* OptionalRenderedWindow::get or get_mut while the window is absent: no callback
\* ever runs into the "Window is not initialized" panic.
C35_WindowPresence == xfer.a = "app" => ~panicked

\* the callbacks that reach get or get_mut only do so with a window, apart from
\* the frame iteration
C35_OnlyIteration == (xfer.a = "app" /\ panicked) => xfer.last.cb = "iteration"

\* the map is what it was: no tile, sun tile or step count changed
C36_MapUnchanged == UNCHANGED <<tiles, sun_tiles, sun, steps>>

\* a frame iteration that ran to its end
C36_FrameIteration == xfer'.last.cb = "iteration" /\ xfer'.last.frame /\ ~panicked'

\* C36: while run_simulation is false the map is stepped only after an Enter press,
\* only by a frame iteration and once per iteration; the step clears
\* iterate_simulation, so however many Enter presses preceded the frame they cause
\* exactly one step, and without an Enter press the map does not change.
C36_PausedStepping ==
    /\ [](xfer.a = "app" => (xfer.flags.iterate_simulation <=> xfer.enters >= 1))
    /\ [][(xfer.a = "app" /\ ~xfer.flags.run_simulation) =>
            /\ ~C36_MapUnchanged =>
                  /\ xfer.enters >= 1
                  /\ C36_FrameIteration
                  /\ steps' = steps + 1
                  /\ ~xfer'.flags.iterate_simulation
                  /\ xfer'.enters = 0
            /\ (xfer.enters >= 1 /\ C36_FrameIteration) => steps' = steps + 1
            /\ xfer.enters = 0 => C36_MapUnchanged]_vars

\* a paused frame iteration has just taken its one step after two Enter presses
C36_Witness ==
    /\ xfer.a = "app"
    /\ ~xfer.flags.run_simulation
    /\ xfer.last.cb = "iteration" /\ xfer.last.stepped /\ xfer.last.enters = MaxEnters
    /\ steps = 1
    /\ ~xfer.flags.iterate_simulation

\* the instance buffers hold the data of the current map in the current mode
C37_Fresh == xfer.uploaded = Upload(xfer.mode)

\* C37: every step sets map_changed; a redraw writes the map to the GPU exactly
\* when map_changed is set and clears it; so whenever map_changed is false the
\* uploaded tile data is that of the current map; and a step leaves a redraw
\* pending that the next frame iteration turns into a redraw request.
C37_DisplayFreshness ==
    /\ []((xfer.a = "app" /\ xfer.window /\ ~xfer.flags.map_changed) => C37_Fresh)
    /\ [][xfer.a = "app" =>
            /\ steps' # steps => xfer'.flags.map_changed
            /\ xfer'.last.cb = "redraw" =>
                  /\ ~xfer'.flags.map_changed
                  /\ xfer'.uploaded = IF xfer.flags.map_changed THEN Upload(xfer.mode)
                                      ELSE xfer.uploaded
            /\ (steps' # steps /\ ~xfer'.last.frame) => xfer'.flags.redraw_simulation
            /\ (xfer.flags.redraw_simulation /\ ~xfer'.flags.redraw_simulation) =>
                  xfer'.last.cb = "iteration"
            /\ (C36_FrameIteration /\ (steps' # steps \/ xfer.flags.redraw_simulation)) =>
                  /\ xfer'.redraw_requested
                  /\ ~xfer'.flags.redraw_simulation]_vars

\* after two steps a redraw has just written the changed map to the GPU
C37_Witness ==
    /\ xfer.a = "app"
    /\ xfer.window
    /\ steps = 2
    /\ xfer.last.cb = "redraw" /\ xfer.last.uploaded
    /\ ~xfer.flags.map_changed
    /\ C37_Fresh
    /\ xfer.mode = "Light"
    /\ \E i \in 1..Len(tiles) : xfer.uploaded.tiles[i] # get_data_background(initial[i], "Light")

\* C38: Bridge::get_opposite applied twice gives the bridge back; applied once it
\* negates exiting, keeps the kind and the energy capacity, turns Out into In and
\* In into Out and keeps Open and Closed, so this end can transmit exactly when
\* the opposite end can receive, and receive exactly when the opposite can transmit.
C38_BridgeOpposite ==
    (xfer.a = "bridge" /\ xfer.stage # "bridge") =>
        LET b == xfer.bridge
            o == xfer.once
        IN  /\ o.exiting = ~b.exiting
            /\ o.bridge = b.bridge
            /\ o.energy_capacity = b.energy_capacity
            /\ b.energy_transfer = "Out" => o.energy_transfer = "In"
            /\ b.energy_transfer = "In" => o.energy_transfer = "Out"
            /\ b.energy_transfer \in {"Open", "Closed"} => o.energy_transfer = b.energy_transfer
            /\ can_transmit(b.energy_transfer) <=> can_receive(o.energy_transfer)
            /\ can_receive(b.energy_transfer) <=> can_transmit(o.energy_transfer)
            /\ xfer.stage = "back" => xfer.twice = b

\* an exiting Out bridge was turned into an entering In bridge and back
C38_Witness ==
    /\ xfer.a = "bridge"
    /\ xfer.stage = "back"
    /\ xfer.bridge.exiting /\ xfer.bridge.energy_transfer = "Out"
    /\ ~xfer.once.exiting /\ xfer.once.energy_transfer = "In"
    /\ xfer.twice = xfer.bridge

====
